---- MODULE Spec2Model ----
(***************************************************************************)
(* Venue-booking REST backend (toyxona-backend).  The entity store holds   *)
(* five collections (User, District, Venue, Image, Booking).  Every route  *)
(* is a middleware chain (protect, authorize, express-validator rules)     *)
(* followed by a controller; each is modelled as an operator from the      *)
(* store and the request to the new store and the response.                *)
(***************************************************************************)
EXTENDS Integers, Sequences, FiniteSets, TLC

VARIABLES users, districts, venues, images, bookings, seq, last, inflight

vars == <<users, districts, venues, images, bookings, seq, last, inflight>>

(***************************************************************************)
(* Bounds of the model.                                                    *)
(***************************************************************************)
MaxVenues == 2
MaxBookings == 2
MaxImages == 2
MaxInflight == 2
MaxUsers == 2
MaxDistricts == 2

(***************************************************************************)
(* Enumerations of the schemas.                                            *)
(***************************************************************************)
Approved == "tasdiqlangan"
Pending == "tasdiqlanmagan"
VenueStatuses == {Approved, Pending}
Upcoming == "endi bo'ladigan"
Past == "bo'lib o'tgan"
BookingStatuses == {Past, Upcoming}
Roles == {"admin", "owner", "user"}

(***************************************************************************)
(* Documents are records; a collection is a function from the ids of its   *)
(* documents to the documents.  A request body is a record holding only    *)
(* the fields the client sent.                                             *)
(***************************************************************************)
Has(o, f) == f \in DOMAIN o

Put(coll, id, doc) == [i \in DOMAIN coll \cup {id} |-> IF i = id THEN doc ELSE coll[i]]

Remove(coll, id) == [i \in DOMAIN coll \ {id} |-> coll[i]]

\* Model.findByIdAndUpdate(id, patch): the fields of the patch that the schema
\* knows replace the stored ones (strict mode drops the others).
Merge(doc, patch) == [f \in DOMAIN doc |-> IF f \in DOMAIN patch THEN patch[f] ELSE doc[f]]

\* { ...a, ...b }: object spread, b's fields win.
Spread(a, b) == [f \in DOMAIN a \cup DOMAIN b |-> IF f \in DOMAIN b THEN b[f] ELSE a[f]]

Store == [users |-> users, districts |-> districts, venues |-> venues,
          images |-> images, bookings |-> bookings, seq |-> seq]

(***************************************************************************)
(* Dates.  A Date is an instant, counted in ticks; a day has TicksPerDay   *)
(* of them.  A date string of a request is one of the ISO-8601 shapes the  *)
(* validator accepts: "date" (YYYY-MM-DD, midnight UTC), "short" (date and *)
(* time without milliseconds), "canon" (the shape Date.toISOString()       *)
(* prints), or "invalid" (not a date).                                     *)
(***************************************************************************)
TicksPerDay == 2

DateStr(d, t, form) == [day |-> d, tick |-> t, form |-> form]

isISO8601(s) == s.form \in {"date", "short", "canon"} /\ (s.form = "date" => s.tick = 0)

\* new Date(s), for a valid s
parseDate(s) == s.day * TicksPerDay + s.tick

toISOString(i) == DateStr(i \div TicksPerDay, i % TicksPerDay, "canon")

calendarDay(i) == i \div TicksPerDay

(***************************************************************************)
(* Responses.  AppError carries its status code; express-validator's       *)
(* failure is the 400 with the list of violations; anything else thrown    *)
(* in a controller reaches next(error) as it is.                           *)
(***************************************************************************)
\* utils/appError and middleware/errorMiddleware are not part of the sources.
\* After the specification's error taxonomy: an AppError is answered with its
\* statusCode, the store's duplicate-key error as a conflict (400), any other
\* error as an unclassified failure (500).
errorHandler(kind, code) ==
    IF kind = "AppError" THEN code
    ELSE IF kind = "MongoServerError" THEN 400
    ELSE 500

AppError(msg, code) == [status |-> errorHandler("AppError", code), error |-> "AppError", message |-> msg]

Thrown(kind) == [status |-> errorHandler(kind, 0), error |-> kind, message |-> kind]

ValidationErrors == [status |-> 400, error |-> "validationResult", message |-> "errors"]

Json(code, msg) == [status |-> code, error |-> "none", message |-> msg]

Out(db, res) == [db |-> db, res |-> res]

(***************************************************************************)
(* Bearer tokens: none, one that jwt.verify rejects (malformed or forged,  *)
(* or the expired token of some user), or a validly signed one encoding a  *)
(* user id.                                                                *)
(***************************************************************************)
NoToken == [kind |-> "none", id |-> 0]
Malformed == [kind |-> "malformed", id |-> 0]
Expired(u) == [kind |-> "expired", id |-> u]
Jwt(u) == [kind |-> "valid", id |-> u]

Unauthenticated == AppError("Not authorized to access this route", 401)

\* jwt.verify alone, without the lookup of the user
protectVerifyOnly(db, tok) == tok.kind = "valid"

\* jwt.decode in place of jwt.verify: the expiry and the signature go unchecked
protectDecodeOnly(db, tok) == tok.kind \in {"valid", "expired"} /\ tok.id \in DOMAIN db.users

\* protect: the request goes on exactly when the token verifies and its user exists
protect(db, tok) == tok.kind = "valid" /\ tok.id \in DOMAIN db.users

\* authorize(...roles)
authorize(roles, db, uid) == db.users[uid].role \in roles

RoleDenied(db, uid) ==
    AppError("Role " \o db.users[uid].role \o " is not authorized to access this route", 403)

isAdmin(db, uid) == db.users[uid].role = "admin"

(***************************************************************************)
(* express-validator rule sets (validationMiddleware).                     *)
(***************************************************************************)
notEmpty(b, f) == Has(b, f) /\ b[f] # ""

validateVenue(b) ==
    /\ notEmpty(b, "name")
    /\ Has(b, "district_id")
    /\ notEmpty(b, "address")
    /\ Has(b, "capacity") /\ b.capacity >= 1
    /\ Has(b, "price_seat") /\ b.price_seat >= 0
    /\ notEmpty(b, "phone_number")
    /\ (Has(b, "status") => b.status \in VenueStatuses)

validateBooking(b) ==
    /\ Has(b, "venue_id")
    /\ Has(b, "reservation_date") /\ isISO8601(b.reservation_date)
    /\ Has(b, "guest_count") /\ b.guest_count >= 1
    /\ notEmpty(b, "client_phone")

validateBookingStatus(b) == Has(b, "status") /\ b.status \in BookingStatuses

validateImage(b) == Has(b, "venue_id") /\ notEmpty(b, "image_url")

(***************************************************************************)
(* Schemas: the fields a document has, their defaults and validators.      *)
(***************************************************************************)
\* a schema whose status defaults to 'tasdiqlangan'
venueDefaultsApproved == [status |-> Approved]

\* venueSchema: status defaults to 'tasdiqlanmagan'; every other field is required
venueDefaults == [status |-> Pending]

venueFields == {"name", "district_id", "address", "capacity", "price_seat",
                "phone_number", "status", "owner_id"}

venueSchemaValid(d) ==
    /\ (Has(d, "capacity") => d.capacity >= 1)
    /\ (Has(d, "price_seat") => d.price_seat >= 0)
    /\ (Has(d, "status") => d.status \in VenueStatuses)
    /\ \A f \in {"name", "address", "phone_number"} : Has(d, f) => d[f] # ""

bookingFields == {"venue_id", "reservation_date", "guest_count", "client_phone",
                  "user_id", "status"}

bookingSchemaValid(d) ==
    /\ (Has(d, "guest_count") => d.guest_count >= 1)
    /\ (Has(d, "status") => d.status \in BookingStatuses)
    /\ (Has(d, "client_phone") => d.client_phone # "")

\* the collection without its unique index
bookingIndexNone(coll, id, d) == TRUE

\* bookingSchema.index({ venue_id: 1, reservation_date: 1 }, { unique: true }):
\* the store refuses a write that would leave two documents with one key
bookingIndexFree(coll, id, d) ==
    \A o \in DOMAIN coll \ {id} :
        ~(coll[o].venue_id = d.venue_id /\ coll[o].reservation_date = d.reservation_date)

imageFields == {"venue_id", "image_url"}

\* imageSchema: venue_id and image_url are required
imageSchemaValid(d) == Has(d, "venue_id") /\ Has(d, "image_url") /\ d.image_url # ""

\* strict mode: a document keeps only the fields of its schema
Strict(fields, d) == [f \in DOMAIN d \cap fields |-> d[f]]

(***************************************************************************)
(* Venue controller.                                                       *)
(***************************************************************************)
\* Image.insertMany(files.map(file => ({ venue_id, path }))): path is no field
\* of imageSchema and image_url is required, so the batch is validated and
\* refused as a whole when a document is invalid
insertManyImages(db, docs) ==
    IF \E k \in DOMAIN docs : ~imageSchemaValid(Strict(imageFields, docs[k]))
    THEN Out(db, Thrown("ValidationError"))
    ELSE Out([db EXCEPT
                !.images = [i \in DOMAIN db.images \cup {db.seq.image + k - 1 : k \in DOMAIN docs} |->
                              IF i \in DOMAIN db.images THEN db.images[i]
                              ELSE Strict(imageFields, docs[i - db.seq.image + 1])],
                !.seq.image = db.seq.image + Len(docs)],
             Json(201, "created"))

\* Venue.create(req.body): the owner as the body names it
createVenueCtlBodyOwner(db, uid, body, files) ==
    LET doc == Spread(venueDefaults, Strict(venueFields, Spread([owner_id |-> uid], body)))
        id == db.seq.venue
    IN  IF ~venueSchemaValid(doc) THEN Out(db, Thrown("ValidationError"))
        ELSE Out([db EXCEPT !.venues = Put(db.venues, id, doc), !.seq.venue = id + 1],
                 Json(201, "venue"))

createVenueCtl(db, uid, body, files) ==
    LET doc == Spread(venueDefaults, Strict(venueFields, Spread(body, [owner_id |-> uid])))
        id == db.seq.venue
        db1 == [db EXCEPT !.venues = Put(db.venues, id, doc), !.seq.venue = id + 1]
        ins == insertManyImages(db1, [k \in 1..files |-> [venue_id |-> id, path |-> "file"]])
    IN  IF ~venueSchemaValid(doc) THEN Out(db, Thrown("ValidationError"))
        ELSE IF files > 0 /\ ins.res.error # "none" THEN Out(db1, ins.res)
        ELSE IF files > 0 THEN Out(ins.db, Json(201, "venue"))
        ELSE Out(db1, Json(201, "venue"))

\* router.post("/", protect, authorize("owner", "admin"), validateVenue, createVenue)
createVenue(db, tok, body, files) ==
    IF ~protect(db, tok) THEN Out(db, Unauthenticated)
    ELSE IF ~authorize({"owner", "admin"}, db, tok.id) THEN Out(db, RoleDenied(db, tok.id))
    ELSE IF ~validateVenue(body) THEN Out(db, ValidationErrors)
    ELSE createVenueCtl(db, tok.id, body, files)

\* the body as sent, status included
dropStatusNever(db, uid, body) == body

\* "Only admins can update status": delete req.body.status
dropStatus(db, uid, body) ==
    IF Has(body, "status") /\ ~isAdmin(db, uid)
    THEN [f \in DOMAIN body \ {"status"} |-> body[f]]
    ELSE body

\* venue.owner_id.toString() !== req.user.id && req.user.role !== "admin"
venueDenied(db, uid, v) == db.venues[v].owner_id # uid /\ ~isAdmin(db, uid)

updateVenueCtl(db, uid, id, body) ==
    IF id \notin DOMAIN db.venues THEN Out(db, AppError("Venue not found", 404))
    ELSE IF venueDenied(db, uid, id)
    THEN Out(db, AppError("Not authorized to update this venue", 403))
    ELSE LET patch == Strict(venueFields, dropStatus(db, uid, body))
         IN  IF ~venueSchemaValid(patch) THEN Out(db, Thrown("ValidationError"))
             ELSE Out([db EXCEPT !.venues[id] = Merge(@, patch)], Json(200, "venue"))

\* router.put("/:id", protect, validateVenue, updateVenue)
updateVenue(db, tok, id, body) ==
    IF ~protect(db, tok) THEN Out(db, Unauthenticated)
    ELSE IF ~validateVenue(body) THEN Out(db, ValidationErrors)
    ELSE updateVenueCtl(db, tok.id, id, body)

\* Image.deleteMany({ venue_id })
deleteManyImages(coll, v) == [i \in {j \in DOMAIN coll : coll[j].venue_id # v} |-> coll[i]]

\* a deleteVenue that also removes the bookings of the venue
deleteVenueCtlWithBookings(db, uid, id) ==
    IF id \notin DOMAIN db.venues THEN Out(db, AppError("Venue not found", 404))
    ELSE IF venueDenied(db, uid, id)
    THEN Out(db, AppError("Not authorized to delete this venue", 403))
    ELSE Out([db EXCEPT !.images = deleteManyImages(db.images, id),
                        !.bookings = deleteManyImages(db.bookings, id),
                        !.venues = Remove(db.venues, id)],
             Json(200, "Venue removed"))

deleteVenueCtl(db, uid, id) ==
    IF id \notin DOMAIN db.venues THEN Out(db, AppError("Venue not found", 404))
    ELSE IF venueDenied(db, uid, id)
    THEN Out(db, AppError("Not authorized to delete this venue", 403))
    ELSE Out([db EXCEPT !.images = deleteManyImages(db.images, id),
                        !.venues = Remove(db.venues, id)],
             Json(200, "Venue removed"))

\* router.delete("/:id", protect, deleteVenue)
deleteVenue(db, tok, id) ==
    IF ~protect(db, tok) THEN Out(db, Unauthenticated)
    ELSE deleteVenueCtl(db, tok.id, id)

approveVenueCtl(db, id) ==
    IF id \notin DOMAIN db.venues THEN Out(db, AppError("Venue not found", 404))
    ELSE Out([db EXCEPT !.venues[id] = Merge(@, [status |-> Approved])], Json(200, "venue"))

\* the route with authorize("admin", "owner")
approveVenueOwnerToo(db, tok, id) ==
    IF ~protect(db, tok) THEN Out(db, Unauthenticated)
    ELSE IF ~authorize({"admin", "owner"}, db, tok.id) THEN Out(db, RoleDenied(db, tok.id))
    ELSE approveVenueCtl(db, id)

\* router.put("/:id/approve", protect, authorize("admin"), approveVenue)
approveVenue(db, tok, id) ==
    IF ~protect(db, tok) THEN Out(db, Unauthenticated)
    ELSE IF ~authorize({"admin"}, db, tok.id) THEN Out(db, RoleDenied(db, tok.id))
    ELSE approveVenueCtl(db, id)

(***************************************************************************)
(* Booking controller.                                                     *)
(***************************************************************************)
\* the lookup without _id: { $ne: booking._id }
findBookingAnyId(coll, v, date, notId) ==
    {o \in DOMAIN coll : coll[o].venue_id = v /\ coll[o].reservation_date = date}

\* Booking.findOne({ venue_id, reservation_date: new Date(...), _id: { $ne: id } })
findBooking(coll, v, date, notId) ==
    {o \in DOMAIN coll \ {notId} : coll[o].venue_id = v /\ coll[o].reservation_date = date}

Continue == Json(0, "next")

\* the venue lookup without the check of its status
createBookingVenueAnyStatus(db, body) ==
    IF body.venue_id \notin DOMAIN db.venues THEN AppError("Venue not found", 404)
    ELSE IF body.guest_count > db.venues[body.venue_id].capacity
    THEN AppError("Guest count exceeds venue capacity of "
                      \o ToString(db.venues[body.venue_id].capacity), 400)
    ELSE Continue

\* createBooking, the venue lookup and its two checks: the error answered, or
\* Continue when the controller goes on
createBookingVenue(db, body) ==
    IF body.venue_id \notin DOMAIN db.venues THEN AppError("Venue not found", 404)
    ELSE IF db.venues[body.venue_id].status # Approved
    THEN AppError("Venue is not approved for bookings", 400)
    ELSE IF body.guest_count > db.venues[body.venue_id].capacity
    THEN AppError("Guest count exceeds venue capacity of "
                      \o ToString(db.venues[body.venue_id].capacity), 400)
    ELSE Continue

\* createBooking, the existence check before the insert
createBookingExisting(db, body) ==
    IF findBooking(db.bookings, body.venue_id, parseDate(body.reservation_date), 0) # {}
    THEN AppError("Venue is already booked for this date", 400)
    ELSE Continue

\* Booking.create(req.body) with the creator and status as defaults only
createBookingInsertBody(db, uid, body) ==
    LET doc == Spread([user_id |-> uid, status |-> Upcoming],
                      Spread(Strict(bookingFields, body),
                             [reservation_date |-> parseDate(body.reservation_date)]))
        id == db.seq.booking
    IN  IF ~bookingSchemaValid(doc) THEN Out(db, Thrown("ValidationError"))
        ELSE IF ~bookingIndexFree(db.bookings, id, doc) THEN Out(db, Thrown("MongoServerError"))
        ELSE Out([db EXCEPT !.bookings = Put(db.bookings, id, doc), !.seq.booking = id + 1],
                 Json(201, "booking"))

\* Booking.create({ venue_id, reservation_date, guest_count, client_phone,
\*                  user_id: req.user.id, status: "endi bo'ladigan" })
createBookingInsert(db, uid, body) ==
    LET doc == [venue_id |-> body.venue_id,
                reservation_date |-> parseDate(body.reservation_date),
                guest_count |-> body.guest_count,
                client_phone |-> body.client_phone,
                user_id |-> uid,
                status |-> Upcoming]
        id == db.seq.booking
    IN  IF ~bookingSchemaValid(doc) THEN Out(db, Thrown("ValidationError"))
        ELSE IF ~bookingIndexFree(db.bookings, id, doc) THEN Out(db, Thrown("MongoServerError"))
        ELSE Out([db EXCEPT !.bookings = Put(db.bookings, id, doc), !.seq.booking = id + 1],
                 Json(201, "booking"))

createBookingCtl(db, uid, body) ==
    IF createBookingVenue(db, body) # Continue THEN Out(db, createBookingVenue(db, body))
    ELSE IF createBookingExisting(db, body) # Continue
    THEN Out(db, createBookingExisting(db, body))
    ELSE createBookingInsert(db, uid, body)

\* router.post('/', protect, validateBooking, createBooking)
createBooking(db, tok, body) ==
    IF ~protect(db, tok) THEN Out(db, Unauthenticated)
    ELSE IF ~validateBooking(body) THEN Out(db, ValidationErrors)
    ELSE createBookingCtl(db, tok.id, body)

\* router.get('/:id', protect, getBookingById).  populate('user_id') leaves
\* null for a creator who is no longer stored, and booking.user_id._id throws;
\* Venue.findById finds nothing for a venue that is gone
getBookingById(db, tok, id) ==
    IF ~protect(db, tok) THEN Out(db, Unauthenticated)
    ELSE IF id \notin DOMAIN db.bookings THEN Out(db, AppError("Booking not found", 404))
    ELSE IF db.bookings[id].user_id \notin DOMAIN db.users THEN Out(db, Thrown("TypeError"))
    ELSE IF /\ db.bookings[id].user_id # tok.id
            /\ ~isAdmin(db, tok.id)
            /\ \/ db.bookings[id].venue_id \notin DOMAIN db.venues
               \/ db.venues[db.bookings[id].venue_id].owner_id # tok.id
    THEN Out(db, AppError("Not authorized to view this booking", 403))
    ELSE Out(db, Json(200, "booking"))

\* booking.user_id.toString() !== req.user.id && req.user.role !== 'admin'
bookingDenied(db, uid, b) == db.bookings[b].user_id # uid /\ ~isAdmin(db, uid)

\* the body as the update document: schema fields only, the date cast to a Date
bookingPatch(body) ==
    LET p == Strict(bookingFields, body)
    IN  [f \in DOMAIN p |-> IF f = "reservation_date" THEN parseDate(p[f]) ELSE p[f]]

\* req.body.reservation_date && req.body.reservation_date !== booking.reservation_date.toISOString()
dateChanged(b, body) ==
    Has(body, "reservation_date") /\ body.reservation_date # toISOString(b.reservation_date)

\* an updateBooking that writes the patch before it checks the caller
updateBookingCtlWriteFirst(db, uid, id, body) ==
    IF id \notin DOMAIN db.bookings THEN Out(db, AppError("Booking not found", 404))
    ELSE IF bookingDenied(db, uid, id)
    THEN Out([db EXCEPT !.bookings[id] = Merge(@, bookingPatch(body))],
             AppError("Not authorized to update this booking", 403))
    ELSE Out([db EXCEPT !.bookings[id] = Merge(@, bookingPatch(body))], Json(200, "booking"))

updateBookingCtl(db, uid, id, body) ==
    IF id \notin DOMAIN db.bookings THEN Out(db, AppError("Booking not found", 404))
    ELSE IF bookingDenied(db, uid, id)
    THEN Out(db, AppError("Not authorized to update this booking", 403))
    ELSE LET b == db.bookings[id] IN
         IF Has(body, "reservation_date") /\ ~isISO8601(body.reservation_date)
         THEN Out(db, Thrown("CastError"))
         ELSE IF /\ dateChanged(b, body)
                 /\ findBooking(db.bookings, b.venue_id, parseDate(body.reservation_date), id) # {}
         THEN Out(db, AppError("Venue is already booked for this date", 400))
         ELSE IF Has(body, "guest_count") /\ body.guest_count # 0 /\ b.venue_id \notin DOMAIN db.venues
         THEN Out(db, Thrown("TypeError"))
         ELSE IF /\ Has(body, "guest_count") /\ body.guest_count # 0
                 /\ body.guest_count > db.venues[b.venue_id].capacity
         THEN Out(db, AppError("Guest count exceeds venue capacity of "
                                   \o ToString(db.venues[b.venue_id].capacity), 400))
         ELSE IF ~bookingSchemaValid(bookingPatch(body)) THEN Out(db, Thrown("ValidationError"))
         ELSE IF ~bookingIndexFree(db.bookings, id, Merge(b, bookingPatch(body)))
         THEN Out(db, Thrown("MongoServerError"))
         ELSE Out([db EXCEPT !.bookings[id] = Merge(b, bookingPatch(body))], Json(200, "booking"))

\* router.put('/:id', protect, updateBooking)
updateBooking(db, tok, id, body) ==
    IF ~protect(db, tok) THEN Out(db, Unauthenticated)
    ELSE updateBookingCtl(db, tok.id, id, body)

deleteBookingCtl(db, uid, id) ==
    IF id \notin DOMAIN db.bookings THEN Out(db, AppError("Booking not found", 404))
    ELSE IF bookingDenied(db, uid, id)
    THEN Out(db, AppError("Not authorized to delete this booking", 403))
    ELSE Out([db EXCEPT !.bookings = Remove(db.bookings, id)], Json(200, "Booking removed"))

\* router.delete('/:id', protect, deleteBooking)
deleteBooking(db, tok, id) ==
    IF ~protect(db, tok) THEN Out(db, Unauthenticated)
    ELSE deleteBookingCtl(db, tok.id, id)

changeBookingStatusCtl(db, uid, id, body) ==
    IF id \notin DOMAIN db.bookings THEN Out(db, AppError("Booking not found", 404))
    ELSE LET v == db.bookings[id].venue_id IN
         \* req.user.role !== 'admin' && venue.owner_id.toString() !== req.user.id,
         \* with venue the result of Venue.findById: null when the venue is gone
         IF isAdmin(db, uid)
         THEN Out([db EXCEPT !.bookings[id] = Merge(@, [status |-> body.status])],
                  Json(200, "booking"))
         ELSE IF v \notin DOMAIN db.venues THEN Out(db, Thrown("TypeError"))
         ELSE IF db.venues[v].owner_id # uid
         THEN Out(db, AppError("Not authorized to change booking status", 403))
         ELSE Out([db EXCEPT !.bookings[id] = Merge(@, [status |-> body.status])],
                  Json(200, "booking"))

\* router.put('/:id/status', protect, validateBookingStatus, changeBookingStatus)
changeBookingStatus(db, tok, id, body) ==
    IF ~protect(db, tok) THEN Out(db, Unauthenticated)
    ELSE IF ~validateBookingStatus(body) THEN Out(db, ValidationErrors)
    ELSE changeBookingStatusCtl(db, tok.id, id, body)

(***************************************************************************)
(* Image controller.                                                       *)
(***************************************************************************)
\* createImage, the venue lookup and the ownership check
createImageVenue(db, uid, body) ==
    IF body.venue_id \notin DOMAIN db.venues THEN AppError("Venue not found", 404)
    ELSE IF venueDenied(db, uid, body.venue_id)
    THEN AppError("Not authorized to add images to this venue", 403)
    ELSE Continue

\* Image.create({ venue_id, image_url })
createImageInsert(db, body) ==
    LET doc == [venue_id |-> body.venue_id, image_url |-> body.image_url]
        id == db.seq.image
    IN  IF ~imageSchemaValid(doc) THEN Out(db, Thrown("ValidationError"))
        ELSE Out([db EXCEPT !.images = Put(db.images, id, doc), !.seq.image = id + 1],
                 Json(201, "image"))

createImageCtl(db, uid, body) ==
    IF createImageVenue(db, uid, body) # Continue THEN Out(db, createImageVenue(db, uid, body))
    ELSE createImageInsert(db, body)

\* router.post('/', protect, validateImage, createImage)
createImage(db, tok, body) ==
    IF ~protect(db, tok) THEN Out(db, Unauthenticated)
    ELSE IF ~validateImage(body) THEN Out(db, ValidationErrors)
    ELSE createImageCtl(db, tok.id, body)

\* const venue = await Venue.findById(image.venue_id);
\* if (venue.owner_id.toString() !== req.user.id && req.user.role !== 'admin'):
\* the owner is read before the role, so a missing venue throws for every caller
imageGuard(db, uid, id, msg) ==
    LET v == db.images[id].venue_id IN
    IF v \notin DOMAIN db.venues THEN Thrown("TypeError")
    ELSE IF venueDenied(db, uid, v) THEN AppError(msg, 403)
    ELSE Continue

updateImageCtl(db, uid, id, body) ==
    IF id \notin DOMAIN db.images THEN Out(db, AppError("Image not found", 404))
    ELSE IF imageGuard(db, uid, id, "Not authorized to update this image") # Continue
    THEN Out(db, imageGuard(db, uid, id, "Not authorized to update this image"))
    ELSE LET patch == Strict({"image_url"}, body) IN
         IF Has(patch, "image_url") /\ patch.image_url = ""
         THEN Out(db, Thrown("ValidationError"))
         ELSE Out([db EXCEPT !.images[id] = Merge(@, patch)], Json(200, "image"))

\* router.put('/:id', protect, updateImage)
updateImage(db, tok, id, body) ==
    IF ~protect(db, tok) THEN Out(db, Unauthenticated)
    ELSE updateImageCtl(db, tok.id, id, body)

deleteImageCtl(db, uid, id) ==
    IF id \notin DOMAIN db.images THEN Out(db, AppError("Image not found", 404))
    ELSE IF imageGuard(db, uid, id, "Not authorized to delete this image") # Continue
    THEN Out(db, imageGuard(db, uid, id, "Not authorized to delete this image"))
    ELSE Out([db EXCEPT !.images = Remove(db.images, id)], Json(200, "Image removed"))

\* router.delete('/:id', protect, deleteImage)
deleteImage(db, tok, id) ==
    IF ~protect(db, tok) THEN Out(db, Unauthenticated)
    ELSE deleteImageCtl(db, tok.id, id)

(***************************************************************************)
(* User model, auth controller and user controller.                        *)
(***************************************************************************)
\* the strings a client may send padded with a blank: " x" trims to "x"
Padded(x) == " " \o x

Names == {"admin", "owner", "user", "owner2", "bob", "yusuf", "Chilanzar", "Yunusabad"}

\* schema option trim: true
trim(x) == IF \E n \in Names : x = Padded(n) THEN CHOOSE n \in Names : x = Padded(n) ELSE x

\* bcrypt.hash: the stored value is never the plaintext
hash(pw) == "$2a$" \o pw

validateUser(b) ==
    /\ notEmpty(b, "firstname")
    /\ notEmpty(b, "lastname")
    /\ notEmpty(b, "username")
    /\ Has(b, "password") /\ Len(b.password) >= 6
    /\ (Has(b, "role") => b.role \in Roles)

validateProfileUpdate(b) == Has(b, "password") => Len(b.password) >= 6

validateDistrict(b) == notEmpty(b, "name")

userSchemaValid(d) ==
    /\ d.firstname # "" /\ d.lastname # "" /\ d.username # ""
    /\ d.role \in Roles

\* the collection without the unique index on username
usernameFreeNoIndex(coll, id, d) == TRUE

\* userSchema.username: unique
usernameFree(coll, id, d) == \A o \in DOMAIN coll \ {id} : coll[o].username # d.username

\* the lookup with the filter's value taken as sent
findUserExact(coll, name) == {o \in DOMAIN coll : coll[o].username = name}

\* User.findOne({ username }): the filter's value is cast with the schema's
\* setters, so it is trimmed as a stored username is
findUser(coll, name) == {o \in DOMAIN coll : coll[o].username = trim(name)}

\* document.save() of a user without the pre('save') hook
saveUserPlain(db, id, d, passwordModified) ==
    LET doc == [d EXCEPT !.firstname = trim(@), !.lastname = trim(@), !.username = trim(@)]
    IN  IF ~userSchemaValid(doc) \/ (passwordModified /\ Len(doc.password) < 6)
        THEN Out(db, Thrown("ValidationError"))
        ELSE IF ~usernameFree(db.users, id, doc) THEN Out(db, Thrown("MongoServerError"))
        ELSE Out([db EXCEPT !.users = Put(db.users, id, doc),
                            !.seq.user = IF id = db.seq.user THEN id + 1 ELSE @],
                 Json(200, "user"))

\* document.save() of a user: setters, validators, the pre('save') hook that
\* hashes a modified password, and the unique index
saveUser(db, id, d, passwordModified) ==
    LET t == [d EXCEPT !.firstname = trim(@), !.lastname = trim(@), !.username = trim(@)]
        doc == IF passwordModified THEN [t EXCEPT !.password = hash(@)] ELSE t
    IN  IF ~userSchemaValid(t) \/ (passwordModified /\ Len(t.password) < 6)
        THEN Out(db, Thrown("ValidationError"))
        ELSE IF ~usernameFree(db.users, id, doc) THEN Out(db, Thrown("MongoServerError"))
        ELSE Out([db EXCEPT !.users = Put(db.users, id, doc),
                            !.seq.user = IF id = db.seq.user THEN id + 1 ELSE @],
                 Json(200, "user"))

\* User.create({ firstname, lastname, username, password, role })
createUserDoc(db, body, role) ==
    LET r == saveUser(db, db.seq.user,
                      [firstname |-> body.firstname, lastname |-> body.lastname,
                       username |-> body.username, password |-> body.password, role |-> role],
                      TRUE)
    IN  IF r.res.error = "none" THEN Out(r.db, Json(201, "user")) ELSE r

\* register and createUser, the existence check before the insert
registerExisting(db, body) ==
    IF findUser(db.users, body.username) # {} THEN AppError("User already exists", 400)
    ELSE Continue

\* role: role || 'user' of register; the schema's default in createUser
registerInsert(db, body) ==
    createUserDoc(db, body, IF Has(body, "role") THEN body.role ELSE "user")

\* router.post('/register', validateUser, register)
register(db, body) ==
    IF ~validateUser(body) THEN Out(db, ValidationErrors)
    ELSE IF registerExisting(db, body) # Continue THEN Out(db, registerExisting(db, body))
    ELSE registerInsert(db, body)

validateLogin(b) == notEmpty(b, "username") /\ notEmpty(b, "password")

\* userSchema.methods.matchPassword: bcrypt.compare(enteredPassword, this.password)
matchPassword(doc, entered) == doc.password = hash(entered)

\* a login that tells an unknown username from a wrong password
loginNamingTheCause(db, body) ==
    IF ~validateLogin(body) THEN Out(db, ValidationErrors)
    ELSE IF findUser(db.users, body.username) = {}
    THEN Out(db, AppError("User not found", 404))
    ELSE IF ~matchPassword(db.users[CHOOSE u \in findUser(db.users, body.username) : TRUE],
                           body.password)
    THEN Out(db, AppError("Invalid credentials", 401))
    ELSE Out(db, Json(200, "token"))

\* router.post('/login', validateLogin, login)
login(db, body) ==
    IF ~validateLogin(body) THEN Out(db, ValidationErrors)
    ELSE IF findUser(db.users, body.username) = {}
    THEN Out(db, AppError("Invalid credentials", 401))
    ELSE IF ~matchPassword(db.users[CHOOSE u \in findUser(db.users, body.username) : TRUE],
                           body.password)
    THEN Out(db, AppError("Invalid credentials", 401))
    ELSE Out(db, Json(200, "token"))

\* router.post('/', protect, authorize('admin'), validateUser, createUser)
createUser(db, tok, body) ==
    IF ~protect(db, tok) THEN Out(db, Unauthenticated)
    ELSE IF ~authorize({"admin"}, db, tok.id) THEN Out(db, RoleDenied(db, tok.id))
    ELSE IF ~validateUser(body) THEN Out(db, ValidationErrors)
    ELSE IF findUser(db.users, body.username) # {}
    THEN Out(db, AppError("User already exists", 400))
    ELSE createUserDoc(db, body, IF Has(body, "role") THEN body.role ELSE "user")

\* if (field) user.field = field, for the fields the controller destructures
assign(doc, body, fields) ==
    [f \in DOMAIN doc |-> IF f \in fields /\ Has(body, f) /\ body[f] # "" THEN body[f] ELSE doc[f]]

\* the username check of updateUser and updateProfile
usernameTaken(db, id, body) ==
    /\ Has(body, "username") /\ body.username # ""
    /\ findUser(db.users, body.username) \ {id} # {}

updateUserCtl(db, id, body) ==
    IF id \notin DOMAIN db.users THEN Out(db, AppError("User not found", 404))
    ELSE IF usernameTaken(db, id, body) THEN Out(db, AppError("Username is already taken", 400))
    ELSE saveUser(db, id, assign(db.users[id], body, {"firstname", "lastname", "username", "role"}),
                  FALSE)

\* router.put('/:id', protect, authorize('admin'), updateUser)
updateUser(db, tok, id, body) ==
    IF ~protect(db, tok) THEN Out(db, Unauthenticated)
    ELSE IF ~authorize({"admin"}, db, tok.id) THEN Out(db, RoleDenied(db, tok.id))
    ELSE updateUserCtl(db, id, body)

deleteUserCtl(db, id) ==
    IF id \notin DOMAIN db.users THEN Out(db, AppError("User not found", 404))
    ELSE Out([db EXCEPT !.users = Remove(db.users, id)], Json(200, "User removed"))

\* router.delete('/:id', protect, authorize('admin'), deleteUser)
deleteUser(db, tok, id) ==
    IF ~protect(db, tok) THEN Out(db, Unauthenticated)
    ELSE IF ~authorize({"admin"}, db, tok.id) THEN Out(db, RoleDenied(db, tok.id))
    ELSE deleteUserCtl(db, id)

\* the fields of a user that a response carries
profileOf(db, id) ==
    [f \in {"_id", "firstname", "lastname", "username", "role"} |->
        IF f = "_id" THEN id ELSE db.users[id][f]]

\* router.get('/profile', protect, getProfile): User.findById(req.user.id)
getProfile(db, tok) ==
    IF ~protect(db, tok) THEN Out(db, Unauthenticated)
    ELSE IF tok.id \notin DOMAIN db.users THEN Out(db, AppError("User not found", 404))
    ELSE Out(db, Spread(Json(200, "user"), [data |-> profileOf(db, tok.id)]))

\* an updateProfile that also takes the role, and the user's id, from the body
updateProfileCtlAnyField(db, uid, body) ==
    LET id == IF Has(body, "id") THEN body.id ELSE uid
    IN  IF id \notin DOMAIN db.users THEN Out(db, AppError("User not found", 404))
        ELSE saveUser(db, id,
                      assign(db.users[id], body,
                             {"firstname", "lastname", "username", "password", "role"}),
                      Has(body, "password"))

updateProfileCtl(db, uid, body) ==
    IF uid \notin DOMAIN db.users THEN Out(db, AppError("User not found", 404))
    ELSE IF usernameTaken(db, uid, body) THEN Out(db, AppError("Username is already taken", 400))
    ELSE saveUser(db, uid,
                  assign(db.users[uid], body, {"firstname", "lastname", "username", "password"}),
                  /\ Has(body, "password") /\ body.password # ""
                  /\ body.password # db.users[uid].password)

\* router.put('/profile', protect, validateProfileUpdate, updateProfile)
updateProfile(db, tok, body) ==
    IF ~protect(db, tok) THEN Out(db, Unauthenticated)
    ELSE IF ~validateProfileUpdate(body) THEN Out(db, ValidationErrors)
    ELSE updateProfileCtl(db, tok.id, body)

(***************************************************************************)
(* District controller.                                                    *)
(***************************************************************************)
\* the lookup without _id: { $ne: req.params.id }
findDistrictAnyId(coll, name, notId) == {o \in DOMAIN coll : coll[o].name = trim(name)}

\* District.findOne({ name, _id: { $ne: id } }), the name cast with the schema's trim
findDistrict(coll, name, notId) == {o \in DOMAIN coll \ {notId} : coll[o].name = trim(name)}

\* districtSchema.name: unique, trim
districtNameFree(coll, id, name) == \A o \in DOMAIN coll \ {id} : coll[o].name # name

\* createDistrict, the existence check before the insert
createDistrictExisting(db, body) ==
    IF findDistrict(db.districts, body.name, 0) # {}
    THEN AppError("District already exists", 400)
    ELSE Continue

\* District.create({ name })
createDistrictInsert(db, body) ==
    IF ~districtNameFree(db.districts, 0, trim(body.name))
    THEN Out(db, Thrown("MongoServerError"))
    ELSE Out([db EXCEPT !.districts = Put(db.districts, db.seq.district, [name |-> trim(body.name)]),
                        !.seq.district = @ + 1],
             Json(201, "district"))

createDistrictCtl(db, body) ==
    IF createDistrictExisting(db, body) # Continue
    THEN Out(db, createDistrictExisting(db, body))
    ELSE createDistrictInsert(db, body)

\* router.post('/', protect, authorize('admin'), validateDistrict, createDistrict)
createDistrict(db, tok, body) ==
    IF ~protect(db, tok) THEN Out(db, Unauthenticated)
    ELSE IF ~authorize({"admin"}, db, tok.id) THEN Out(db, RoleDenied(db, tok.id))
    ELSE IF ~validateDistrict(body) THEN Out(db, ValidationErrors)
    ELSE createDistrictCtl(db, body)

updateDistrictCtl(db, id, body) ==
    IF findDistrict(db.districts, body.name, id) # {}
    THEN Out(db, AppError("District with this name already exists", 400))
    ELSE IF id \notin DOMAIN db.districts THEN Out(db, AppError("District not found", 404))
    ELSE IF ~districtNameFree(db.districts, id, trim(body.name))
    THEN Out(db, Thrown("MongoServerError"))
    ELSE Out([db EXCEPT !.districts[id] = [name |-> trim(body.name)]], Json(200, "district"))

\* router.put('/:id', protect, authorize('admin'), validateDistrict, updateDistrict)
updateDistrict(db, tok, id, body) ==
    IF ~protect(db, tok) THEN Out(db, Unauthenticated)
    ELSE IF ~authorize({"admin"}, db, tok.id) THEN Out(db, RoleDenied(db, tok.id))
    ELSE IF ~validateDistrict(body) THEN Out(db, ValidationErrors)
    ELSE updateDistrictCtl(db, id, body)

deleteDistrictCtl(db, id) ==
    IF id \notin DOMAIN db.districts THEN Out(db, AppError("District not found", 404))
    ELSE Out([db EXCEPT !.districts = Remove(db.districts, id)], Json(200, "District removed"))

\* router.delete('/:id', protect, authorize('admin'), deleteDistrict)
deleteDistrict(db, tok, id) ==
    IF ~protect(db, tok) THEN Out(db, Unauthenticated)
    ELSE IF ~authorize({"admin"}, db, tok.id) THEN Out(db, RoleDenied(db, tok.id))
    ELSE deleteDistrictCtl(db, id)

(***************************************************************************)
(* The state machine.  A request is served in one step: the store becomes  *)
(* the handler's store and `last` records the operation and its response.  *)
(***************************************************************************)
UserDoc(name, role) ==
    [firstname |-> name, lastname |-> name, username |-> name, password |-> hash("secret"),
     role |-> role]

\* Four accounts made through register (an admin, two owners, a user), with the
\* ids the store gave them in that order.
SeedUsers ==
    <<UserDoc("admin", "admin"), UserDoc("owner", "owner"), UserDoc("user", "user"),
      UserDoc("owner2", "owner")>>

IdOf(name) == CHOOSE u \in DOMAIN SeedUsers : SeedUsers[u].username = name

Admin == IdOf("admin")
Owner == IdOf("owner")
User == IdOf("user")
Owner2 == IdOf("owner2")

\* a fifth account was registered and deleted again: its token is still validly
\* signed, its id is stored nowhere
Deleted == Len(SeedUsers) + 1

SeedDistricts == (1 :> [name |-> "Chilanzar"])

NoResponse == [op |-> "none", status |-> 0, error |-> "none", message |-> ""]

\* the store after the four registrations
Fresh ==
    [users |-> SeedUsers, districts |-> SeedDistricts, venues |-> <<>>, images |-> <<>>,
     bookings |-> <<>>,
     seq |-> [user |-> Deleted + 1, district |-> 2, venue |-> 1, image |-> 1, booking |-> 1]]

Holds(db) ==
    /\ users = db.users
    /\ districts = db.districts
    /\ venues = db.venues
    /\ images = db.images
    /\ bookings = db.bookings
    /\ seq = db.seq

Init ==
    /\ Holds(Fresh)
    /\ last = NoResponse
    /\ inflight = <<>>

\* ids are store-generated and never reused; the model stops creating at the bounds
Bounded(db) ==
    /\ db.seq.venue <= MaxVenues + 1
    /\ db.seq.booking <= MaxBookings + 1
    /\ db.seq.image <= MaxImages + 1
    /\ db.seq.user <= Fresh.seq.user + MaxUsers
    /\ db.seq.district <= Fresh.seq.district + MaxDistricts

Respond(op, res) ==
    last' = [op |-> op, status |-> res.status, error |-> res.error, message |-> res.message]

Commit(db) ==
    /\ Bounded(db)
    /\ users' = db.users
    /\ districts' = db.districts
    /\ venues' = db.venues
    /\ images' = db.images
    /\ bookings' = db.bookings
    /\ seq' = db.seq


\* A request: the bearer token, the :id of the path, the body, the uploaded files.
Req(tok, id, body, files) == [tok |-> tok, id |-> id, body |-> body, files |-> files]

Serve(op, q) ==
    CASE op = "createVenue" -> createVenue(Store, q.tok, q.body, q.files)
      [] op = "updateVenue" -> updateVenue(Store, q.tok, q.id, q.body)
      [] op = "deleteVenue" -> deleteVenue(Store, q.tok, q.id)
      [] op = "approveVenue" -> approveVenue(Store, q.tok, q.id)
      [] op = "createBooking" -> createBooking(Store, q.tok, q.body)
      [] op = "updateBooking" -> updateBooking(Store, q.tok, q.id, q.body)
      [] op = "deleteBooking" -> deleteBooking(Store, q.tok, q.id)
      [] op = "changeBookingStatus" -> changeBookingStatus(Store, q.tok, q.id, q.body)
      [] op = "createImage" -> createImage(Store, q.tok, q.body)
      [] op = "updateImage" -> updateImage(Store, q.tok, q.id, q.body)
      [] op = "deleteImage" -> deleteImage(Store, q.tok, q.id)
      [] op = "register" -> register(Store, q.body)
      [] op = "login" -> login(Store, q.body)
      [] op = "createUser" -> createUser(Store, q.tok, q.body)
      [] op = "updateUser" -> updateUser(Store, q.tok, q.id, q.body)
      [] op = "deleteUser" -> deleteUser(Store, q.tok, q.id)
      [] op = "updateProfile" -> updateProfile(Store, q.tok, q.body)
      [] op = "createDistrict" -> createDistrict(Store, q.tok, q.body)
      [] op = "updateDistrict" -> updateDistrict(Store, q.tok, q.id, q.body)
      [] op = "deleteDistrict" -> deleteDistrict(Store, q.tok, q.id)

(***************************************************************************)
(* Inputs: every request the claims quantify over.                         *)
(***************************************************************************)
MaxCapacity == 2

Principals == {Admin, Owner, User, Owner2}
Tokens == {NoToken, Malformed, Expired(Admin)} \cup {Jwt(u) : u \in Principals \cup {Deleted}}

VenueIds == 1..(MaxVenues + 1)
BookingIds == 1..(MaxBookings + 1)
ImageIds == 1..(MaxImages + 1)

VenueBody(c) ==
    [name |-> "Hall", district_id |-> 1, address |-> "Street 1", capacity |-> c,
     price_seat |-> 10, phone_number |-> "+998"]

VenueBodies ==
    {VenueBody(c) : c \in 0..MaxCapacity}
        \cup {Spread(VenueBody(c), [status |-> s]) : c \in 1..MaxCapacity, s \in VenueStatuses}

DateStrs == {DateStr(1, 0, "date"), DateStr(1, 0, "canon"), DateStr(1, 1, "canon"),
             DateStr(2, 0, "short")}

BookingBody(v, d, g) ==
    [venue_id |-> v, reservation_date |-> d, guest_count |-> g, client_phone |-> "+998"]

BookingBodies == {BookingBody(v, d, g) : v \in VenueIds, d \in DateStrs, g \in 0..(MaxCapacity + 1)}

BookingPatches ==
    {[reservation_date |-> d] : d \in DateStrs \cup {DateStr(0, 0, "invalid")}}
        \cup {[guest_count |-> g] : g \in 0..(MaxCapacity + 1)}
        \cup {[venue_id |-> v] : v \in 1..MaxVenues}
        \cup {[status |-> st] : st \in BookingStatuses}

StatusBodies == {[status |-> s] : s \in BookingStatuses} \cup {[status |-> "cancelled"]}

ImageBodies == {[venue_id |-> v, image_url |-> u] : v \in VenueIds, u \in {"", "http://img/1"}}

ImagePatches == {[image_url |-> "http://img/2"]}

UserIds == Principals \cup {Deleted}
DistrictIds == 1..(Fresh.seq.district + MaxDistricts - 1)

UserBody(name, pw) == [firstname |-> "F", lastname |-> "L", username |-> name, password |-> pw]

UserBodies ==
    {UserBody(n, pw) : n \in {"bob", "admin", Padded("admin")}, pw \in {"secret", "abc"}}
        \cup {Spread(UserBody("bob", "secret"), [role |-> r]) : r \in Roles}

UserPatches ==
    {[username |-> n] : n \in {"bob", "admin", Padded("admin")}}
        \cup {[password |-> pw] : pw \in {"secret2", "abc"}}
        \cup {[role |-> r] : r \in Roles}

LoginBodies ==
    {[username |-> n, password |-> pw] :
        n \in {"admin", "bob", "nobody"}, pw \in {"secret", "secret2", "wrong"}}

DistrictBodies == {[name |-> n] : n \in {"Chilanzar", Padded("Chilanzar"), "Yunusabad", ""}}

NoBody == [none |-> TRUE]

Reqs(toks, ids, bodies) == {Req(t, i, b, 0) : t \in toks, i \in ids, b \in bodies}

\* the requests of an operation that carry one of the tokens toks
ReqsOf(op, toks) ==
    CASE op = "createVenue" ->
            {Req(t, 0, b, f) : t \in toks, b \in VenueBodies, f \in 0..1}
      [] op = "updateVenue" -> Reqs(toks, VenueIds, VenueBodies)
      [] op = "deleteVenue" -> Reqs(toks, VenueIds, {NoBody})
      [] op = "approveVenue" -> Reqs(toks, VenueIds, {NoBody})
      [] op = "createBooking" -> Reqs(toks, {0}, BookingBodies)
      [] op = "updateBooking" -> Reqs(toks, BookingIds, BookingPatches)
      [] op = "deleteBooking" -> Reqs(toks, BookingIds, {NoBody})
      [] op = "changeBookingStatus" -> Reqs(toks, BookingIds, StatusBodies)
      [] op = "createImage" -> Reqs(toks, {0}, ImageBodies)
      [] op = "updateImage" -> Reqs(toks, ImageIds, ImagePatches)
      [] op = "deleteImage" -> Reqs(toks, ImageIds, {NoBody})
      [] op = "register" -> Reqs(toks, {0}, UserBodies)
      [] op = "login" -> Reqs(toks, {0}, LoginBodies)
      [] op = "createUser" -> Reqs(toks, {0}, UserBodies)
      [] op = "updateUser" -> Reqs(toks, UserIds, UserPatches)
      [] op = "deleteUser" -> Reqs(toks, UserIds, {NoBody})
      [] op = "updateProfile" -> Reqs(toks, {0}, UserPatches)
      [] op = "createDistrict" -> Reqs(toks, {0}, DistrictBodies)
      [] op = "updateDistrict" -> Reqs(toks, DistrictIds, DistrictBodies)
      [] op = "deleteDistrict" -> Reqs(toks, DistrictIds, {NoBody})

AllReqs(op) == ReqsOf(op, Tokens)

\* the mutating routes behind protect
Ops == {"createVenue", "updateVenue", "deleteVenue", "approveVenue", "createBooking",
        "updateBooking", "deleteBooking", "changeBookingStatus", "createImage",
        "updateImage", "deleteImage", "createUser", "updateUser", "deleteUser",
        "updateProfile", "createDistrict", "updateDistrict", "deleteDistrict"}

(***************************************************************************)
(* Spec: the venue and booking life cycle.  The requests explored are a    *)
(* subset of AllReqs: venues made and changed by their owner and the       *)
(* admin, bookings made by the user for one date; the other principals and *)
(* the unauthenticated tokens knock at every route.                        *)
(***************************************************************************)
Day1 == DateStr(1, 0, "date")

CreateVenue ==
    \E q \in {Req(Jwt(Owner), 0, VenueBody(c), 0) : c \in 1..MaxCapacity} :
        LET r == Serve("createVenue", q)
        IN  /\ Commit(r.db)
            /\ Respond("createVenue", r.res)
            /\ UNCHANGED inflight

UpdateVenue ==
    \E q \in Reqs({Jwt(Owner)}, 1..MaxVenues, {VenueBody(c) : c \in 1..MaxCapacity})
               \cup Reqs({Jwt(Admin)}, 1..MaxVenues,
                       {Spread(VenueBody(MaxCapacity), [status |-> Pending])}) :
        LET r == Serve("updateVenue", q)
        IN  /\ Commit(r.db)
            /\ Respond("updateVenue", r.res)
            /\ UNCHANGED inflight

DeleteVenue ==
    \E q \in Reqs({Jwt(Owner)}, 1..MaxVenues, {NoBody}) :
        LET r == Serve("deleteVenue", q)
        IN  /\ Commit(r.db)
            /\ Respond("deleteVenue", r.res)
            /\ UNCHANGED inflight

ApproveVenue ==
    \E q \in Reqs({Jwt(Admin), Jwt(Owner)}, 1..MaxVenues, {NoBody}) :
        LET r == Serve("approveVenue", q)
        IN  /\ Commit(r.db)
            /\ Respond("approveVenue", r.res)
            /\ UNCHANGED inflight

CreateBooking ==
    \E q \in {Req(Jwt(User), 0, BookingBody(v, Day1, g), 0) :
                v \in 1..MaxVenues, g \in 1..(MaxCapacity + 1)}
               \cup {Req(t, 0, BookingBody(1, Day1, 1), 0) : t \in {Expired(Admin), Jwt(Deleted)}} :
        LET r == Serve("createBooking", q)
        IN  /\ Commit(r.db)
            /\ Respond("createBooking", r.res)
            /\ UNCHANGED inflight

UpdateBooking ==
    \E q \in Reqs({Jwt(User)}, 1..MaxBookings, {[guest_count |-> g] : g \in 1..MaxCapacity}) :
        LET r == Serve("updateBooking", q)
        IN  /\ Commit(r.db)
            /\ Respond("updateBooking", r.res)
            /\ UNCHANGED inflight

DeleteBooking ==
    \E q \in Reqs({Jwt(User)}, 1..MaxBookings, {NoBody}) :
        LET r == Serve("deleteBooking", q)
        IN  /\ Commit(r.db)
            /\ Respond("deleteBooking", r.res)
            /\ UNCHANGED inflight

ChangeBookingStatus ==
    \E q \in Reqs({Jwt(Owner)}, 1..MaxBookings, {[status |-> Past]}) :
        LET r == Serve("changeBookingStatus", q)
        IN  /\ Commit(r.db)
            /\ Respond("changeBookingStatus", r.res)
            /\ UNCHANGED inflight

Next ==
    \/ CreateVenue
    \/ UpdateVenue
    \/ DeleteVenue
    \/ ApproveVenue
    \/ CreateBooking
    \/ UpdateBooking
    \/ DeleteBooking
    \/ ChangeBookingStatus

Spec == Init /\ [][Next]_vars

(***************************************************************************)
(* Properties of the venue and booking life cycle (Spec).                  *)
(***************************************************************************)
RoleOf(tok) == users[tok.id].role

\* the tokens that authenticate nobody: absent, rejected by jwt.verify, or of a
\* user that is not stored
UnauthTokens == {t \in Tokens : t.kind # "valid" \/ t.id \notin DOMAIN users}

AuthTokens == Tokens \ UnauthTokens

\* C4: every Booking's guest_count is at most the capacity of the Venue it
\* references, in every reachable state.
C4_GuestCountWithinCapacity ==
    \A b \in DOMAIN bookings :
        bookings[b].venue_id \in DOMAIN venues
            => bookings[b].guest_count <= venues[bookings[b].venue_id].capacity

\* C5: createBooking against an existing venue that is not approved is answered
\* with 400 and stores nothing, for every authenticated principal and body.
C5_UnapprovedVenueRejected ==
    \A q \in ReqsOf("createBooking", AuthTokens) :
        (q.body.venue_id \in DOMAIN venues /\ venues[q.body.venue_id].status # Approved)
            => LET r == Serve("createBooking", q) IN r.res.status = 400 /\ r.db = Store

C5_Witness ==
    /\ last.op = "createBooking"
    /\ last.status = 400
    /\ last.message = "Venue is not approved for bookings"
    /\ bookings = <<>>
    /\ \E v \in DOMAIN venues : venues[v].status = Pending

\* the owner an ownership-guarded mutation asks for: nobody when the venue of
\* the image or booking is gone
RequiredOwner(op, q) ==
    CASE op \in {"updateVenue", "deleteVenue"} -> {venues[q.id].owner_id}
      [] op = "createImage" -> {venues[q.body.venue_id].owner_id}
      [] op \in {"updateImage", "deleteImage"} ->
            {venues[v].owner_id : v \in {images[q.id].venue_id} \cap DOMAIN venues}
      [] op \in {"updateBooking", "deleteBooking"} -> {bookings[q.id].user_id}
      [] op = "changeBookingStatus" ->
            {venues[v].owner_id : v \in {bookings[q.id].venue_id} \cap DOMAIN venues}

\* the resource of the request exists
TargetExists(op, q) ==
    CASE op \in {"updateVenue", "deleteVenue"} -> q.id \in DOMAIN venues
      [] op = "createImage" -> q.body.venue_id \in DOMAIN venues
      [] op \in {"updateImage", "deleteImage"} -> q.id \in DOMAIN images
      [] op \in {"updateBooking", "deleteBooking", "changeBookingStatus"} -> q.id \in DOMAIN bookings

\* the body passes the route's express-validator rules
BodyValid(op, q) ==
    CASE op = "updateVenue" -> validateVenue(q.body)
      [] op = "createImage" -> validateImage(q.body)
      [] op = "changeBookingStatus" -> validateBookingStatus(q.body)
      [] OTHER -> TRUE

OwnershipGuarded == {"updateVenue", "deleteVenue", "createImage", "updateImage", "deleteImage",
                     "updateBooking", "deleteBooking", "changeBookingStatus"}

\* C6: an authenticated principal who is neither admin nor the owner the
\* action asks for gets 403 from every ownership-guarded mutation on an
\* existing resource.
C6_StrangerGets403 ==
    \A op \in OwnershipGuarded : \A q \in ReqsOf(op, AuthTokens) :
        (/\ RoleOf(q.tok) # "admin"
         /\ BodyValid(op, q)
         /\ TargetExists(op, q)
         /\ q.tok.id \notin RequiredOwner(op, q))
            => Serve(op, q).res.status = 403

\* C8: a request to a protected operation without a token, with a token that
\* does not verify or with the token of a user that is not stored is answered
\* 401 and leaves the store as it is.
C8_UnauthenticatedIs401 ==
    \A op \in Ops : \A q \in ReqsOf(op, UnauthTokens) :
        LET r == Serve(op, q) IN r.res.status = 401 /\ r.db = Store

C8_Witness ==
    /\ last.op = "createBooking"
    /\ last.status = 401
    /\ \E v \in DOMAIN venues : venues[v].status = Approved
    /\ bookings = <<>>

\* C9: approve by a principal of role owner or user is answered 403 and leaves
\* the venue as it is, also when the principal owns the venue.
C9_ApproveIsAdminOnly ==
    \A q \in ReqsOf("approveVenue", AuthTokens) :
        RoleOf(q.tok) \in {"owner", "user"}
            => LET r == Serve("approveVenue", q) IN r.res.status = 403 /\ r.db = Store

C9_Witness ==
    /\ last.op = "approveVenue"
    /\ last.status = 403
    /\ last.message = "Role owner is not authorized to access this route"
    /\ \E v \in DOMAIN venues : venues[v].owner_id = Owner /\ venues[v].status = Pending

\* C28: no updateBooking and no changeBookingStatus request changes the
\* user_id or the venue_id of a stored booking.
C28_BookingReferencesFixed ==
    \A op \in {"updateBooking", "changeBookingStatus"} : \A q \in ReqsOf(op, AuthTokens) :
        \A b \in DOMAIN bookings \cap DOMAIN Serve(op, q).db.bookings :
            /\ Serve(op, q).db.bookings[b].user_id = bookings[b].user_id
            /\ Serve(op, q).db.bookings[b].venue_id = bookings[b].venue_id

\* the answers of the guards and of the business rules: 401, 403, 404, and
\* 400 for a venue that is not approved, a capacity exceeded, a date taken or
\* a duplicate username or district name
Refusal(res) ==
    /\ res.error \in {"AppError", "MongoServerError"}
    /\ res.status \in {400, 401, 403, 404}

\* C30: a request that is answered with a refusal leaves the five collections
\* as they were.
C30_RefusalChangesNothing ==
    \A op \in Ops \cup {"register", "login"} :
        \A q \in ReqsOf(op, IF op \in {"register", "login"} THEN {NoToken}
                             ELSE {NoToken, Jwt(Admin), Jwt(Owner), Jwt(User)}) :
            LET r == Serve(op, q) IN Refusal(r.res) => r.db = Store

\* a booking is stored and an updateBooking has just been refused
C30_Witness ==
    /\ last.op = "updateBooking"
    /\ last.error = "AppError"
    /\ last.status \in {400, 403, 404}
    /\ bookings # <<>>

\* C22: a createVenue with uploaded files that has stored the venue and whose
\* image batch was refused is answered 201, and the venue stays stored.
C22_ImageBatchBestEffort ==
    \A q \in ReqsOf("createVenue", {Jwt(Owner), Jwt(Admin)}) :
        LET r == Serve("createVenue", q)
        IN  (q.files > 0 /\ DOMAIN r.db.venues # DOMAIN venues /\ r.db.images = images)
                => r.res.status = 201

\* the create and update routes
WriteOps == {"createVenue", "updateVenue", "createBooking", "updateBooking", "createImage",
             "updateImage", "register", "createUser", "updateUser", "updateProfile",
             "createDistrict", "updateDistrict"}

\* the field rules of the entity an operation writes: the rule set of its
\* validator and, for the routes without one, the schema's rules on the
\* fields the body carries
FieldRules(op, body) ==
    CASE op \in {"createVenue", "updateVenue"} -> validateVenue(body)
      [] op = "createBooking" -> validateBooking(body)
      [] op = "updateBooking" -> bookingSchemaValid(Strict(bookingFields, body))
      [] op = "createImage" -> validateImage(body)
      [] op = "updateImage" -> (Has(body, "image_url") => body.image_url # "")
      [] op \in {"register", "createUser"} -> validateUser(body)
      [] op = "updateUser" -> (Has(body, "role") => body.role \in Roles)
      [] op = "updateProfile" -> validateProfileUpdate(body)
      [] op \in {"createDistrict", "updateDistrict"} -> validateDistrict(body)

\* C16: a create or update request of an authenticated, authorized principal
\* whose body violates the field rules is answered 400 with the validator's
\* list of violations, and the store is unchanged.
C16_InvalidInputRejectedFirst ==
    \A op \in WriteOps : \A q \in ReqsOf(op, {Jwt(Admin)}) :
        ~FieldRules(op, q.body)
            => /\ Serve(op, q).res = ValidationErrors
               /\ Serve(op, q).db = Store

(***************************************************************************)
(* SpecDates: bookings of approved venues over several dates.  The store   *)
(* starts with MaxVenues venues, each created by the owner and approved by *)
(* the admin.                                                              *)
(***************************************************************************)
\* the store after uid creates a venue and the admin approves it
Opened(db, uid) ==
    approveVenue(createVenue(db, Jwt(uid), VenueBody(MaxCapacity), 0).db,
                 Jwt(Admin), db.seq.venue).db

RECURSIVE Halls(_)
Halls(n) == IF n = 0 THEN Fresh ELSE Opened(Halls(n - 1), Owner)

InitHalls ==
    /\ Holds(Halls(MaxVenues))
    /\ last = NoResponse
    /\ inflight = <<>>

DatesCreateBooking ==
    \E q \in {Req(Jwt(u), 0, BookingBody(v, d, 1), 0) :
                u \in {User, Owner2}, v \in 1..MaxVenues, d \in DateStrs} :
        LET r == Serve("createBooking", q)
        IN  /\ Commit(r.db)
            /\ Respond("createBooking", r.res)
            /\ UNCHANGED inflight

DatesUpdateBooking ==
    \E q \in Reqs({Jwt(User), Jwt(Admin)}, 1..MaxBookings,
                  {[reservation_date |-> d] : d \in DateStrs}
                      \cup {[venue_id |-> v] : v \in 1..MaxVenues}
                      \cup {[status |-> Past]}) :
        LET r == Serve("updateBooking", q)
        IN  /\ Commit(r.db)
            /\ Respond("updateBooking", r.res)
            /\ UNCHANGED inflight

DatesDeleteBooking ==
    \E q \in Reqs({Jwt(User)}, 1..MaxBookings, {NoBody}) :
        LET r == Serve("deleteBooking", q)
        IN  /\ Commit(r.db)
            /\ Respond("deleteBooking", r.res)
            /\ UNCHANGED inflight

DatesChangeBookingStatus ==
    \E q \in Reqs({Jwt(Owner)}, 1..MaxBookings, {[status |-> Past]}) :
        LET r == Serve("changeBookingStatus", q)
        IN  /\ Commit(r.db)
            /\ Respond("changeBookingStatus", r.res)
            /\ UNCHANGED inflight

NextDates ==
    \/ DatesCreateBooking
    \/ DatesUpdateBooking
    \/ DatesDeleteBooking
    \/ DatesChangeBookingStatus

SpecDates == InitHalls /\ [][NextDates]_vars

(***************************************************************************)
(* Properties of the bookings' dates (SpecDates).                          *)
(***************************************************************************)
BookingOps == {"createBooking", "updateBooking", "deleteBooking", "changeBookingStatus"}

\* no two bookings of the collection have one (venue_id, reservation_date)
KeysDistinct(coll) ==
    \A a \in DOMAIN coll : \A b \in DOMAIN coll \ {a} :
        ~(coll[a].venue_id = coll[b].venue_id
            /\ coll[a].reservation_date = coll[b].reservation_date)

\* the booking another booking of the same venue holds the instant d
HeldByOther(id, d) ==
    \E o \in DOMAIN bookings \ {id} :
        bookings[o].venue_id = bookings[id].venue_id /\ bookings[o].reservation_date = d

\* C1: no two distinct bookings share (venue_id, reservation_date), in this
\* state and after any one more booking request of any principal; an
\* updateBooking of the booking's creator or the admin that moves the date to
\* one another booking of the venue holds is rejected and changes nothing,
\* and one that sends the booking's own date again, in any notation, succeeds.
C1_OneBookingPerVenueAndDate ==
    /\ KeysDistinct(bookings)
    /\ \A op \in BookingOps : \A q \in ReqsOf(op, AuthTokens) :
           KeysDistinct(Serve(op, q).db.bookings)
    /\ \A q \in ReqsOf("updateBooking", AuthTokens) :
           (/\ q.id \in DOMAIN bookings
            /\ (bookings[q.id].user_id = q.tok.id \/ RoleOf(q.tok) = "admin")
            /\ Has(q.body, "reservation_date")
            /\ isISO8601(q.body.reservation_date))
               => LET r == Serve("updateBooking", q)
                      d == parseDate(q.body.reservation_date)
                  IN  /\ (d # bookings[q.id].reservation_date /\ HeldByOther(q.id, d))
                             => (r.res.status = 400 /\ r.db = Store)
                      /\ d = bookings[q.id].reservation_date
                             => (r.res.status = 200 /\ r.db = Store)

C1_Witness ==
    /\ last.op = "updateBooking"
    /\ last.status = 400
    /\ last.message = "Venue is already booked for this date"
    /\ \E a \in DOMAIN bookings : \E b \in DOMAIN bookings \ {a} :
           /\ bookings[a].venue_id = bookings[b].venue_id
           /\ bookings[a].reservation_date # bookings[b].reservation_date

\* C3: no venue holds two bookings on one calendar day: a create or update
\* whose date falls on the day of another booking of the venue is rejected
\* whatever its time of day.
C3_OneBookingPerCalendarDay ==
    \A a \in DOMAIN bookings : \A b \in DOMAIN bookings \ {a} :
        bookings[a].venue_id = bookings[b].venue_id
            => calendarDay(bookings[a].reservation_date)
                   # calendarDay(bookings[b].reservation_date)

\* C11: a stored booking's status changes only in a step that serves
\* changeBookingStatus, and a booking enters the store with status upcoming.
C11_StatusOnlyByChangeStatus ==
    [][/\ \A b \in DOMAIN bookings \cap DOMAIN bookings' :
              bookings'[b].status # bookings[b].status => last'.op = "changeBookingStatus"
       /\ \A b \in DOMAIN bookings' \ DOMAIN bookings : bookings'[b].status = Upcoming]_vars

(***************************************************************************)
(* SpecNonAdmin: the venue routes with every request sent by a principal   *)
(* of role owner or user; the admin never acts.                            *)
(***************************************************************************)
NonAdmins == {Jwt(Owner), Jwt(Owner2), Jwt(User)}

VenueStatusBodies == {VenueBody(1)} \cup {Spread(VenueBody(1), [status |-> s]) : s \in VenueStatuses}

NonAdminCreateVenue ==
    \E q \in Reqs(NonAdmins, {0}, VenueStatusBodies) :
        LET r == Serve("createVenue", q)
        IN  /\ Commit(r.db)
            /\ Respond("createVenue", r.res)
            /\ UNCHANGED inflight

NonAdminUpdateVenue ==
    \E q \in Reqs(NonAdmins, 1..MaxVenues,
                  {Spread(VenueBody(c), [status |-> Approved]) : c \in 1..MaxCapacity}) :
        LET r == Serve("updateVenue", q)
        IN  /\ Commit(r.db)
            /\ Respond("updateVenue", r.res)
            /\ UNCHANGED inflight

NonAdminApproveVenue ==
    \E q \in Reqs(NonAdmins, 1..MaxVenues, {NoBody}) :
        LET r == Serve("approveVenue", q)
        IN  /\ Commit(r.db)
            /\ Respond("approveVenue", r.res)
            /\ UNCHANGED inflight

NextNonAdmin ==
    \/ NonAdminCreateVenue
    \/ NonAdminUpdateVenue
    \/ NonAdminApproveVenue

SpecNonAdmin == Init /\ [][NextNonAdmin]_vars

\* C10: a venue's status is set by an admin only: while no admin has acted no
\* venue is approved, whatever the owners and users create and update.
C10_NoApprovedVenueWithoutAdmin ==
    \A v \in DOMAIN venues : venues[v].status # Approved

(***************************************************************************)
(* SpecRace: createBooking requests in flight together.  The controller    *)
(* awaits the store three times (Venue.findById, Booking.findOne,          *)
(* Booking.create); other requests run between the awaits.  A slot of      *)
(* inflight holds one request: its token and body, the await it stands     *)
(* before (pc) and, once answered, its response.                           *)
(***************************************************************************)
Slots == 1..MaxInflight

Waiting(q, pc) == [tok |-> q.tok, body |-> q.body, pc |-> pc, status |-> 0, error |-> "none"]

Answered(q, res) ==
    [tok |-> q.tok, body |-> q.body, pc |-> "done", status |-> res.status, error |-> res.error]

AsReq(s) == Req(inflight[s].tok, 0, inflight[s].body, 0)

\* createBooking up to the await of Booking.findOne
createBookingBegin(db, tok, body) ==
    IF ~protect(db, tok) THEN Unauthenticated
    ELSE IF ~validateBooking(body) THEN ValidationErrors
    ELSE createBookingVenue(db, body)

RaceBegin ==
    \E s \in Slots \ DOMAIN inflight :
        \E q \in {Req(t, 0, BookingBody(v, d, g), 0) :
                    t \in {Jwt(User), Jwt(Owner2), Expired(Admin)}, v \in 1..MaxVenues,
                    d \in {Day1, DateStr(1, 0, "canon"), DateStr(1, 1, "canon")},
                    g \in {1, MaxCapacity + 1}} :
            LET res == createBookingBegin(Store, q.tok, q.body)
            IN  /\ inflight' = Put(inflight, s, IF res = Continue THEN Waiting(q, "findOne")
                                                ELSE Answered(q, res))
                /\ IF res = Continue THEN UNCHANGED last ELSE Respond("createBooking", res)
                /\ UNCHANGED <<users, districts, venues, images, bookings, seq>>

RaceFindOne ==
    \E s \in DOMAIN inflight :
        /\ inflight[s].pc = "findOne"
        /\ LET res == createBookingExisting(Store, inflight[s].body)
           IN  /\ inflight' = [inflight EXCEPT ![s] =
                                  IF res = Continue THEN Waiting(AsReq(s), "create")
                                  ELSE Answered(AsReq(s), res)]
               /\ IF res = Continue THEN UNCHANGED last ELSE Respond("createBooking", res)
        /\ UNCHANGED <<users, districts, venues, images, bookings, seq>>

RaceCreate ==
    \E s \in DOMAIN inflight :
        /\ inflight[s].pc = "create"
        /\ LET r == createBookingInsert(Store, inflight[s].tok.id, inflight[s].body)
           IN  /\ Commit(r.db)
               /\ Respond("createBooking", r.res)
               /\ inflight' = [inflight EXCEPT ![s] = Answered(AsReq(s), r.res)]

NextRace ==
    \/ RaceBegin
    \/ RaceFindOne
    \/ RaceCreate

SpecRace == InitHalls /\ [][NextRace]_vars

\* the answered requests for venue v and instant d that passed authentication
\* and the venue's checks
AnsweredFor(v, d) ==
    {s \in DOMAIN inflight :
        /\ inflight[s].pc = "done"
        /\ inflight[s].tok \in AuthTokens
        /\ inflight[s].body.venue_id = v
        /\ parseDate(inflight[s].body.reservation_date) = d
        /\ inflight[s].body.guest_count <= venues[v].capacity}

Instants == {parseDate(d) : d \in DateStrs}

\* C2: of the createBooking requests answered for one approved venue and one
\* reservation_date, however their steps interleaved, exactly one succeeded
\* and exactly one booking of that pair is stored.
C2_ExactlyOneConcurrentCreate ==
    \A v \in DOMAIN venues : \A d \in Instants :
        Cardinality(AnsweredFor(v, d)) >= 2
            => /\ Cardinality({s \in AnsweredFor(v, d) : inflight[s].status = 201}) = 1
               /\ Cardinality(findBooking(bookings, v, d, 0)) = 1

\* both passed Booking.findOne before either inserted: the loser was refused by
\* the store
C2_Witness ==
    \E s \in DOMAIN inflight : \E t \in DOMAIN inflight \ {s} :
        /\ inflight[s].pc = "done" /\ inflight[t].pc = "done"
        /\ inflight[s].body.venue_id = inflight[t].body.venue_id
        /\ parseDate(inflight[s].body.reservation_date)
               = parseDate(inflight[t].body.reservation_date)
        /\ inflight[s].status = 201
        /\ inflight[t].error = "MongoServerError"

(***************************************************************************)
(* SpecImages: createImage in flight while venues are deleted.  The        *)
(* controller awaits Venue.findById and then Image.create; a deleteVenue   *)
(* served between the two leaves an image whose venue is gone.             *)
(***************************************************************************)
\* createImage up to the await of Image.create
createImageBegin(db, tok, body) ==
    IF ~protect(db, tok) THEN Unauthenticated
    ELSE IF ~validateImage(body) THEN ValidationErrors
    ELSE createImageVenue(db, tok.id, body)

ImagesBegin ==
    \E s \in Slots \ DOMAIN inflight :
        \E q \in Reqs({Jwt(Owner), Jwt(Owner2)}, {0},
                      {[venue_id |-> v, image_url |-> "http://img/1"] : v \in 1..MaxVenues}) :
            LET res == createImageBegin(Store, q.tok, q.body)
            IN  /\ inflight' = Put(inflight, s, IF res = Continue THEN Waiting(q, "create")
                                                ELSE Answered(q, res))
                /\ IF res = Continue THEN UNCHANGED last ELSE Respond("createImage", res)
                /\ UNCHANGED <<users, districts, venues, images, bookings, seq>>

ImagesCreate ==
    \E s \in DOMAIN inflight :
        /\ inflight[s].pc = "create"
        /\ LET r == createImageInsert(Store, inflight[s].body)
           IN  /\ Commit(r.db)
               /\ Respond("createImage", r.res)
               /\ inflight' = [inflight EXCEPT ![s] = Answered(AsReq(s), r.res)]

ImagesDeleteVenue ==
    \E q \in Reqs({Jwt(Owner)}, 1..MaxVenues, {NoBody}) :
        LET r == Serve("deleteVenue", q)
        IN  /\ Commit(r.db)
            /\ Respond("deleteVenue", r.res)
            /\ UNCHANGED inflight

ImagesUpdateImage ==
    \E q \in Reqs({Jwt(Admin), Jwt(Owner2)}, 1..MaxImages, ImagePatches) :
        LET r == Serve("updateImage", q)
        IN  /\ Commit(r.db)
            /\ Respond("updateImage", r.res)
            /\ UNCHANGED inflight

ImagesDeleteImage ==
    \E q \in Reqs({Jwt(Admin), Jwt(Owner)}, 1..MaxImages, {NoBody}) :
        LET r == Serve("deleteImage", q)
        IN  /\ Commit(r.db)
            /\ Respond("deleteImage", r.res)
            /\ UNCHANGED inflight

NextImages ==
    \/ ImagesBegin
    \/ ImagesCreate
    \/ ImagesDeleteVenue
    \/ ImagesUpdateImage
    \/ ImagesDeleteImage

SpecImages == InitHalls /\ [][NextImages]_vars

\* C7: no request of an admin is answered 403, and none fails in the
\* authorization step, whatever the mutation and the resource.  The
\* TypeError of updateBooking is left out: it comes from the capacity check
\* that follows the authorization.
C7_AdminNeverDenied ==
    \A op \in Ops : \A q \in ReqsOf(op, AuthTokens) :
        RoleOf(q.tok) = "admin"
            => LET r == Serve(op, q)
               IN  /\ r.res.status # 403
                   /\ (op # "updateBooking" => r.res.error # "TypeError")

\* C21: once no createImage is in flight, no image references a venue that
\* deleteVenue has removed.
C21_DeletedVenueHasNoImages ==
    (\A s \in DOMAIN inflight : inflight[s].pc = "done")
        => \A i \in DOMAIN images :
               images[i].venue_id \in 1..(seq.venue - 1) => images[i].venue_id \in DOMAIN venues

(***************************************************************************)
(* SpecUsers: accounts.  Anyone registers, the admin creates, updates and  *)
(* deletes users, every user updates the own profile.                      *)
(***************************************************************************)
UsersRegister ==
    \E q \in Reqs({NoToken}, {0},
                  {UserBody(n, "secret") : n \in {"bob", "admin", Padded("bob")}}
                      \cup {UserBody("bob", "abc")}) :
        LET r == Serve("register", q)
        IN  /\ Commit(r.db)
            /\ Respond("register", r.res)
            /\ UNCHANGED inflight

UsersCreateUser ==
    \E q \in Reqs({Jwt(Admin), Jwt(User)}, {0},
                  {Spread(UserBody(n, "secret"), [role |-> "owner"]) : n \in {"bob", "yusuf"}}) :
        LET r == Serve("createUser", q)
        IN  /\ Commit(r.db)
            /\ Respond("createUser", r.res)
            /\ UNCHANGED inflight

UsersUpdateUser ==
    \E q \in Reqs({Jwt(Admin)}, {User, Deleted + 1},
                  {[username |-> n] : n \in {"bob", "user"}} \cup {[role |-> "owner"]}) :
        LET r == Serve("updateUser", q)
        IN  /\ Commit(r.db)
            /\ Respond("updateUser", r.res)
            /\ UNCHANGED inflight

UsersUpdateProfile ==
    \E q \in Reqs({Jwt(User), Jwt(Deleted + 1)}, {0},
                  {[username |-> n] : n \in {"bob", Padded("admin")}}
                      \cup {[password |-> pw] : pw \in {"secret2", "abc"}}) :
        LET r == Serve("updateProfile", q)
        IN  /\ Commit(r.db)
            /\ Respond("updateProfile", r.res)
            /\ UNCHANGED inflight

UsersDeleteUser ==
    \E q \in Reqs({Jwt(Admin)}, {User, Deleted + 1}, {NoBody}) :
        LET r == Serve("deleteUser", q)
        IN  /\ Commit(r.db)
            /\ Respond("deleteUser", r.res)
            /\ UNCHANGED inflight

NextUsers ==
    \/ UsersRegister
    \/ UsersCreateUser
    \/ UsersUpdateUser
    \/ UsersUpdateProfile
    \/ UsersDeleteUser

SpecUsers == Init /\ [][NextUsers]_vars

(***************************************************************************)
(* Properties of the accounts (SpecUsers).                                 *)
(***************************************************************************)
\* the tokens of every id the store may hold in SpecUsers
UserTokens == Tokens \cup {Jwt(u) : u \in (Deleted + 1)..(Deleted + MaxUsers)}

UserReqs(op) ==
    CASE op \in {"register", "login"} -> ReqsOf(op, {NoToken})
      [] op = "updateUser" ->
            Reqs(UserTokens, UserIds \cup (Deleted + 1)..(Deleted + MaxUsers), UserPatches)
      [] OTHER -> ReqsOf(op, UserTokens)

UsernamesDistinct(coll) ==
    \A a \in DOMAIN coll : \A b \in DOMAIN coll \ {a} : coll[a].username # coll[b].username

\* the stored users other than id whose username is the trimmed name
HeldBy(name, id) == {o \in DOMAIN users \ {id} : users[o].username = trim(name)}

IsStoredToken(t) == t.kind = "valid" /\ t.id \in DOMAIN users

IsAdminToken(t) == IsStoredToken(t) /\ users[t.id].role = "admin"

\* the user an update request changes, when the request reaches the controller
Target(op, q) ==
    IF op = "updateProfile" /\ IsStoredToken(q.tok) THEN {q.tok.id}
    ELSE IF op = "updateUser" /\ IsAdminToken(q.tok) THEN {q.id} \cap DOMAIN users
    ELSE {}

\* C12: no two users share a username, in this state and after any one more
\* account request; a valid register or admin createUser with a held username
\* and an update to a username another user holds are answered 400 and change
\* nothing; an update that sends the user's own username again succeeds.
C12_UsernamesUnique ==
    /\ UsernamesDistinct(users)
    /\ \A op \in {"register", "createUser", "updateUser", "updateProfile"} :
           \A q \in UserReqs(op) :
               LET r == Serve(op, q) IN
               /\ UsernamesDistinct(r.db.users)
               /\ (/\ (op = "register" \/ (op = "createUser" /\ IsAdminToken(q.tok)))
                   /\ validateUser(q.body)
                   /\ HeldBy(q.body.username, 0) # {})
                      => (r.res.status = 400 /\ r.res.error = "AppError" /\ r.db = Store)
               /\ \A u \in (IF op \in {"updateUser", "updateProfile"} THEN Target(op, q) ELSE {}) :
                      Has(q.body, "username")
                          => /\ HeldBy(q.body.username, u) # {}
                                 => (r.res.status = 400 /\ r.res.error = "AppError"
                                        /\ r.db = Store)
                             /\ trim(q.body.username) = users[u].username
                                 => r.res.status = 200

C12_Witness ==
    /\ last.op = "updateProfile"
    /\ last.status = 400
    /\ last.message = "Username is already taken"
    /\ \E u \in DOMAIN users : users[u].username = "bob"

(***************************************************************************)
(* SpecDistricts: the admin creates, renames and deletes districts.        *)
(***************************************************************************)
DistrictsCreate ==
    \E q \in Reqs({Jwt(Admin), Jwt(Owner)}, {0},
                  {[name |-> n] : n \in {"Chilanzar", Padded("Chilanzar"), "Yunusabad", ""}}) :
        LET r == Serve("createDistrict", q)
        IN  /\ Commit(r.db)
            /\ Respond("createDistrict", r.res)
            /\ UNCHANGED inflight

DistrictsUpdate ==
    \E q \in Reqs({Jwt(Admin)}, DistrictIds,
                  {[name |-> n] : n \in {"Chilanzar", "Yunusabad", "Sergeli"}}) :
        LET r == Serve("updateDistrict", q)
        IN  /\ Commit(r.db)
            /\ Respond("updateDistrict", r.res)
            /\ UNCHANGED inflight

DistrictsDelete ==
    \E q \in Reqs({Jwt(Admin)}, DistrictIds, {NoBody}) :
        LET r == Serve("deleteDistrict", q)
        IN  /\ Commit(r.db)
            /\ Respond("deleteDistrict", r.res)
            /\ UNCHANGED inflight

NextDistricts ==
    \/ DistrictsCreate
    \/ DistrictsUpdate
    \/ DistrictsDelete

SpecDistricts == Init /\ [][NextDistricts]_vars

DistrictNamesDistinct(coll) ==
    \A a \in DOMAIN coll : \A b \in DOMAIN coll \ {a} : coll[a].name # coll[b].name

\* the stored districts other than id whose name is the trimmed name
NamedBy(name, id) == {o \in DOMAIN districts \ {id} : districts[o].name = trim(name)}

\* C13: no two districts share a name, in this state and after any one more
\* district request; the admin's createDistrict with a held name and
\* updateDistrict to a name another district holds are answered 400 and
\* change nothing; updateDistrict to the name the district itself holds
\* succeeds.
C13_DistrictNamesUnique ==
    /\ DistrictNamesDistinct(districts)
    /\ \A op \in {"createDistrict", "updateDistrict", "deleteDistrict"} :
           \A q \in ReqsOf(op, Tokens) :
               LET r == Serve(op, q) IN
               /\ DistrictNamesDistinct(r.db.districts)
               /\ (op # "deleteDistrict" /\ IsAdminToken(q.tok) /\ validateDistrict(q.body))
                      => /\ NamedBy(q.body.name, IF op = "createDistrict" THEN 0 ELSE q.id) # {}
                             => (r.res.status = 400 /\ r.res.error = "AppError" /\ r.db = Store)
                         /\ (/\ op = "updateDistrict"
                             /\ q.id \in DOMAIN districts
                             /\ districts[q.id].name = trim(q.body.name))
                                => r.res.status = 200

C13_Witness ==
    /\ last.op = "updateDistrict"
    /\ last.status = 400
    /\ last.message = "District with this name already exists"
    /\ Cardinality(DOMAIN districts) >= 2

(***************************************************************************)
(* SpecConflict: creates for one unique key in flight together.  register, *)
(* createDistrict and createBooking each await an existence check          *)
(* (findOne) and then the insert (create); a slot of inflight holds the    *)
(* operation with its request.                                             *)
(***************************************************************************)
ConflictOps == {"register", "createDistrict", "createBooking"}

\* the handler up to the await of its findOne
BeginOf(op, db, q) ==
    CASE op = "register" -> IF ~validateUser(q.body) THEN ValidationErrors ELSE Continue
      [] op = "createDistrict" ->
            IF ~protect(db, q.tok) THEN Unauthenticated
            ELSE IF ~authorize({"admin"}, db, q.tok.id) THEN RoleDenied(db, q.tok.id)
            ELSE IF ~validateDistrict(q.body) THEN ValidationErrors
            ELSE Continue
      [] op = "createBooking" -> createBookingBegin(db, q.tok, q.body)

ExistingOf(op, db, body) ==
    CASE op = "register" -> registerExisting(db, body)
      [] op = "createDistrict" -> createDistrictExisting(db, body)
      [] op = "createBooking" -> createBookingExisting(db, body)

InsertOf(op, db, q) ==
    CASE op = "register" -> registerInsert(db, q.body)
      [] op = "createDistrict" -> createDistrictInsert(db, q.body)
      [] op = "createBooking" -> createBookingInsert(db, q.tok.id, q.body)

ConflictReqs(op) ==
    CASE op = "register" ->
            Reqs({NoToken}, {0}, {UserBody(n, "secret") : n \in {"bob", Padded("bob")}})
      [] op = "createDistrict" ->
            Reqs({Jwt(Admin)}, {0}, {[name |-> n] : n \in {"Yunusabad", Padded("Yunusabad")}})
      [] op = "createBooking" ->
            Reqs({Jwt(User)}, {0}, {BookingBody(1, d, 1) : d \in {Day1, DateStr(1, 0, "canon")}})

ConflictBegin ==
    \E s \in Slots \ DOMAIN inflight : \E op \in ConflictOps : \E q \in ConflictReqs(op) :
        LET res == BeginOf(op, Store, q)
        IN  /\ inflight' = Put(inflight, s,
                               Spread(IF res = Continue THEN Waiting(q, "findOne")
                                      ELSE Answered(q, res), [op |-> op]))
            /\ IF res = Continue THEN UNCHANGED last ELSE Respond(op, res)
            /\ UNCHANGED <<users, districts, venues, images, bookings, seq>>

ConflictFindOne ==
    \E s \in DOMAIN inflight :
        /\ inflight[s].pc = "findOne"
        /\ LET op == inflight[s].op
               res == ExistingOf(op, Store, inflight[s].body)
           IN  /\ inflight' = [inflight EXCEPT ![s] =
                                  Spread(IF res = Continue THEN Waiting(AsReq(s), "create")
                                         ELSE Answered(AsReq(s), res), [op |-> op])]
               /\ IF res = Continue THEN UNCHANGED last ELSE Respond(op, res)
        /\ UNCHANGED <<users, districts, venues, images, bookings, seq>>

ConflictCreate ==
    \E s \in DOMAIN inflight :
        /\ inflight[s].pc = "create"
        /\ LET op == inflight[s].op
               r == InsertOf(op, Store, AsReq(s))
           IN  /\ Commit(r.db)
               /\ Respond(op, r.res)
               /\ inflight' = [inflight EXCEPT ![s] = Spread(Answered(AsReq(s), r.res),
                                                            [op |-> op])]

NextConflict ==
    \/ ConflictBegin
    \/ ConflictFindOne
    \/ ConflictCreate

SpecConflict == InitHalls /\ [][NextConflict]_vars

\* the requests of two slots are creates for one unique key
SameKey(s, t) ==
    /\ inflight[s].op = inflight[t].op
    /\ CASE inflight[s].op = "register" ->
                trim(inflight[s].body.username) = trim(inflight[t].body.username)
         [] inflight[s].op = "createDistrict" ->
                trim(inflight[s].body.name) = trim(inflight[t].body.name)
         [] inflight[s].op = "createBooking" ->
                /\ inflight[s].body.venue_id = inflight[t].body.venue_id
                /\ parseDate(inflight[s].body.reservation_date)
                       = parseDate(inflight[t].body.reservation_date)

Served(op, q, res) == <<Spread(Answered(q, res), [op |-> op, id |-> q.id])>>

AccountsRegister ==
    \E q \in Reqs({NoToken}, {0}, {UserBody("bob", pw) : pw \in {"secret2", "abc"}}) :
        LET r == Serve("register", q)
        IN  /\ Commit(r.db)
            /\ Respond("register", r.res)
            /\ inflight' = Served("register", q, r.res)

AccountsCreateUser ==
    \E q \in Reqs({Jwt(Admin)}, {0}, {Spread(UserBody("yusuf", "secret3"), [role |-> "owner"])}) :
        LET r == Serve("createUser", q)
        IN  /\ Commit(r.db)
            /\ Respond("createUser", r.res)
            /\ inflight' = Served("createUser", q, r.res)

AccountsUpdateUser ==
    \E q \in Reqs({Jwt(Admin)}, {User, Deleted + 1},
                  {[password |-> "secret4"], [role |-> "owner", password |-> "secret4"]}) :
        LET r == Serve("updateUser", q)
        IN  /\ Commit(r.db)
            /\ Respond("updateUser", r.res)
            /\ inflight' = Served("updateUser", q, r.res)

AccountsUpdateProfile ==
    \E q \in Reqs({Jwt(User), Jwt(Deleted + 1)}, {0},
                  {[password |-> pw] : pw \in {"secret2", "abc", hash("secret")}}
                      \cup {[firstname |-> "G", role |-> "admin", id |-> Admin]}) :
        LET r == Serve("updateProfile", q)
        IN  /\ Commit(r.db)
            /\ Respond("updateProfile", r.res)
            /\ inflight' = Served("updateProfile", q, r.res)

AccountsDeleteUser ==
    \E q \in Reqs({Jwt(Admin)}, {User, Deleted + 1}, {NoBody}) :
        LET r == Serve("deleteUser", q)
        IN  /\ Commit(r.db)
            /\ Respond("deleteUser", r.res)
            /\ inflight' = Served("deleteUser", q, r.res)

AccountsLogin ==
    \E q \in Reqs({NoToken}, {0},
                  {[username |-> n, password |-> pw] :
                      n \in {"user", "bob", "nobody"}, pw \in {"secret", "secret2", "wrong"}}) :
        LET r == Serve("login", q)
        IN  /\ Commit(r.db)
            /\ Respond("login", r.res)
            /\ inflight' = Served("login", q, r.res)

NextAccounts ==
    \/ AccountsRegister
    \/ AccountsCreateUser
    \/ AccountsUpdateUser
    \/ AccountsUpdateProfile
    \/ AccountsDeleteUser
    \/ AccountsLogin

SpecAccounts == Init /\ [][NextAccounts]_vars

\* the stored users with the username of a login body
Known(body) == {u \in DOMAIN users : users[u].username = trim(body.username)}

\* a login body that names no stored user
NoSuchUser(body) == validateLogin(body) /\ Known(body) = {}

\* a login body that names a stored user, with another password than theirs
WrongPassword(body) ==
    /\ validateLogin(body)
    /\ Known(body) # {}
    /\ \A u \in Known(body) : ~matchPassword(users[u], body.password)

\* C17: a login that fails for an unknown username and one that fails for a
\* wrong password get one and the same response, 401 'Invalid credentials':
\* the answer to every failing login is the same constant in every state, so
\* a run where the username exists and one where it does not are answered
\* alike.
C17_LoginFailuresAlike ==
    /\ \A q \in UserReqs("login") :
           (NoSuchUser(q.body) \/ WrongPassword(q.body))
               => /\ Serve("login", q).res
                         = [status |-> 401, error |-> "AppError", message |-> "Invalid credentials"]
                  /\ Serve("login", q).db = Store
    /\ \A q1 \in UserReqs("login") : \A q2 \in UserReqs("login") :
           (NoSuchUser(q1.body) /\ WrongPassword(q2.body))
               => Serve("login", q1).res = Serve("login", q2).res

\* a login with a stored username and a wrong password has just been refused,
\* in a state where another username of the login bodies is not stored
C17_Witness ==
    /\ 1 \in DOMAIN inflight
    /\ inflight[1].op = "login"
    /\ WrongPassword(inflight[1].body)
    /\ last.status = 401
    /\ \E q \in UserReqs("login") : NoSuchUser(q.body)

\* C23: an updateProfile step changes no user but the principal of its token,
\* adds and removes no user, and leaves the principal's role as it was,
\* whatever role or id the body carries; getProfile changes nothing and, when
\* it succeeds, returns the record of the principal of its token.
C23_ProfileOnlyOwnRecord ==
    [][/\ last'.op = "updateProfile"
           => /\ DOMAIN users' = DOMAIN users
              /\ \A u \in DOMAIN users :
                     /\ u # inflight'[1].tok.id => users'[u] = users[u]
                     /\ users'[u].role = users[u].role
       /\ \A t \in UserTokens :
              /\ getProfile(Store, t).db = Store
              /\ getProfile(Store, t).res.status = 200
                     => (/\ t.id \in DOMAIN users
                         /\ getProfile(Store, t).res.data._id = t.id
                         /\ getProfile(Store, t).res.data.username = users[t.id].username)]_vars

\* the user has just changed their firstname with a body that also named the
\* admin role and the admin's id
C23_Witness ==
    /\ 1 \in DOMAIN inflight
    /\ inflight[1].op = "updateProfile"
    /\ inflight[1].status = 200
    /\ Has(inflight[1].body, "role") /\ Has(inflight[1].body, "id")
    /\ inflight[1].tok.id = User
    /\ inflight[1].body.id # User
    /\ users[User].firstname = inflight[1].body.firstname
    /\ users[User].role = "user"
    /\ inflight[1].body.role # "user"

\* the passwords that the requests of SpecAccounts carry
Plaintexts == {"secret", "secret2", "secret3", "secret4", "abc", hash("secret")}

IsHash(s) == s \in {hash(p) : p \in Plaintexts}

\* C18: a password that a step stores, for a new user or in place of another,
\* is the hash of the password the request carried and not that password, and
\* every stored password is a hash.
C18_PasswordsHashed ==
    [][\A u \in DOMAIN users' :
           /\ IsHash(users'[u].password)
           /\ (u \notin DOMAIN users \/ users'[u].password # users[u].password)
                  => /\ Has(inflight'[1].body, "password")
                     /\ users'[u].password = hash(inflight'[1].body.password)
                     /\ users'[u].password # inflight'[1].body.password]_vars

\* the user has just replaced their password through updateProfile
C18_Witness ==
    /\ 1 \in DOMAIN inflight
    /\ inflight[1].op = "updateProfile"
    /\ inflight[1].status = 200
    /\ Has(inflight[1].body, "password")
    /\ inflight[1].tok.id \in DOMAIN users
    /\ users[inflight[1].tok.id].password = hash(inflight[1].body.password)
    /\ users[inflight[1].tok.id].password # hash("secret")

(***************************************************************************)
(* SpecScenario: venues of capacity 100 are created, approved and booked   *)
(* for 50 or 150 guests.  Slot 1 of inflight keeps the request answered    *)
(* last, next to its response in last.                                     *)
(***************************************************************************)
ScenarioVenueBodies ==
    {VenueBody(100), Spread(VenueBody(100), [owner_id |-> User])}

ScenarioBookingBodies ==
    LET plain == {BookingBody(v, d, g) : v \in 1..MaxVenues,
                                         d \in {Day1, DateStr(2, 0, "date")}, g \in {50, 150}}
    IN  plain \cup {Spread(b, [user_id |-> Owner, status |-> Past]) :
                        b \in {c \in plain : c.guest_count = 50}}

ScenarioCreateVenue ==
    \E q \in Reqs({Jwt(Owner), Jwt(Admin)}, {0}, ScenarioVenueBodies) :
        LET r == Serve("createVenue", q)
        IN  /\ Commit(r.db)
            /\ Respond("createVenue", r.res)
            /\ inflight' = Served("createVenue", q, r.res)

ScenarioApproveVenue ==
    \E q \in Reqs({Jwt(Admin)}, 1..MaxVenues, {NoBody}) :
        LET r == Serve("approveVenue", q)
        IN  /\ Commit(r.db)
            /\ Respond("approveVenue", r.res)
            /\ inflight' = Served("approveVenue", q, r.res)

ScenarioCreateBooking ==
    \E q \in Reqs({Jwt(User), Jwt(Admin)}, {0}, ScenarioBookingBodies) :
        LET r == Serve("createBooking", q)
        IN  /\ Commit(r.db)
            /\ Respond("createBooking", r.res)
            /\ inflight' = Served("createBooking", q, r.res)

NextScenario ==
    \/ ScenarioCreateVenue
    \/ ScenarioApproveVenue
    \/ ScenarioCreateBooking

SpecScenario == Init /\ [][NextScenario]_vars

\* the booking a step has inserted, if any
Inserted == DOMAIN bookings' \ DOMAIN bookings

\* a createBooking step by a non-admin for a venue that exists
BookingStep(v) ==
    /\ last'.op = "createBooking"
    /\ inflight'[1].tok \in NonAdmins
    /\ inflight'[1].body.venue_id = v

\* C15: a venue created without a status is stored as pending; a non-admin's
\* createBooking against a pending venue is answered 400 (not approved);
\* against an approved venue it stores a booking with status upcoming when
\* the date is free and the guests fit, is answered 400 (already booked) when
\* the date is taken, and is answered 400 with a message that ends in the
\* venue's capacity when the guests exceed it.
C15_BookingScenario ==
    [][/\ (last'.op = "createVenue" /\ ~Has(inflight'[1].body, "status")
              /\ DOMAIN venues' # DOMAIN venues)
             => /\ last'.status = 201
                /\ \A v \in DOMAIN venues' \ DOMAIN venues : venues'[v].status = Pending
       /\ \A v \in DOMAIN venues :
              BookingStep(v) =>
                  LET b == inflight'[1].body
                      taken == \E o \in DOMAIN bookings :
                                   /\ bookings[o].venue_id = v
                                   /\ bookings[o].reservation_date = parseDate(b.reservation_date)
                  IN  /\ venues[v].status = Pending
                          => /\ last'.status = 400
                             /\ last'.message = "Venue is not approved for bookings"
                             /\ Inserted = {}
                      /\ (venues[v].status = Approved /\ b.guest_count > venues[v].capacity)
                          => /\ last'.status = 400
                             /\ last'.message = "Guest count exceeds venue capacity of "
                                                    \o ToString(venues[v].capacity)
                             /\ Inserted = {}
                      /\ (venues[v].status = Approved /\ b.guest_count <= venues[v].capacity
                              /\ taken)
                          => /\ last'.status = 400
                             /\ last'.message = "Venue is already booked for this date"
                             /\ Inserted = {}
                      /\ (venues[v].status = Approved /\ b.guest_count <= venues[v].capacity
                              /\ ~taken)
                          => /\ last'.status = 201
                             /\ Inserted # {}
                             /\ \A n \in Inserted : bookings'[n].status = Upcoming]_vars

\* the end of the scenario: the venue of capacity 100 is approved and booked
\* for 50 guests on day 1, and the request for 150 guests has just been
\* refused with the capacity in the message
C15_Witness ==
    /\ 1 \in DOMAIN venues /\ venues[1].capacity = 100 /\ venues[1].status = Approved
    /\ \E o \in DOMAIN bookings :
           /\ bookings[o].venue_id = 1
           /\ bookings[o].reservation_date = parseDate(Day1)
           /\ bookings[o].guest_count = 50
           /\ bookings[o].status = Upcoming
    /\ 1 \in DOMAIN inflight
    /\ inflight[1].op = "createBooking"
    /\ inflight[1].tok \in NonAdmins
    /\ inflight[1].body.venue_id = 1
    /\ inflight[1].body.guest_count = 150
    /\ last.status = 400
    /\ last.message = "Guest count exceeds venue capacity of 100"

\* C19: a venue that createVenue stores has the principal of the request as
\* its owner_id, whatever owner_id the body carries.
C19_OwnerIsPrincipal ==
    [][last'.op = "createVenue"
           => \A v \in DOMAIN venues' \ DOMAIN venues :
                  venues'[v].owner_id = inflight'[1].tok.id]_vars

C19_Witness ==
    /\ 1 \in DOMAIN inflight
    /\ inflight[1].op = "createVenue"
    /\ inflight[1].status = 201
    /\ Has(inflight[1].body, "owner_id")
    /\ inflight[1].body.owner_id # inflight[1].tok.id
    /\ venues[seq.venue - 1].owner_id = inflight[1].tok.id

\* C20: a booking that createBooking stores has the principal of the request
\* as its user_id and status upcoming, whatever user_id and status the body
\* carries.
C20_CreatorAndUpcoming ==
    [][last'.op = "createBooking"
           => \A n \in Inserted :
                  /\ bookings'[n].user_id = inflight'[1].tok.id
                  /\ bookings'[n].status = Upcoming]_vars

C20_Witness ==
    /\ 1 \in DOMAIN inflight
    /\ inflight[1].op = "createBooking"
    /\ inflight[1].status = 201
    /\ Has(inflight[1].body, "user_id")
    /\ inflight[1].body.user_id # inflight[1].tok.id
    /\ inflight[1].body.status = Past
    /\ bookings[seq.booking - 1].user_id = inflight[1].tok.id
    /\ bookings[seq.booking - 1].status = Upcoming

(***************************************************************************)
(* SpecDeletes: the venues of InitHalls get images and bookings; venues,   *)
(* bookings, the district and users are deleted.  Slot 1 of inflight keeps *)
(* the request answered last.                                              *)
(***************************************************************************)
DeletesCreateImage ==
    \E q \in Reqs({Jwt(Owner)}, {0},
                  {[venue_id |-> v, image_url |-> "http://img/1"] : v \in 1..MaxVenues}) :
        LET r == Serve("createImage", q)
        IN  /\ Commit(r.db)
            /\ Respond("createImage", r.res)
            /\ inflight' = Served("createImage", q, r.res)

DeletesCreateBooking ==
    \E q \in Reqs({Jwt(User)}, {0}, {BookingBody(v, Day1, 1) : v \in 1..MaxVenues}) :
        LET r == Serve("createBooking", q)
        IN  /\ Commit(r.db)
            /\ Respond("createBooking", r.res)
            /\ inflight' = Served("createBooking", q, r.res)

DeletesDeleteVenue ==
    \E q \in Reqs({Jwt(Owner)}, 1..MaxVenues, {NoBody}) :
        LET r == Serve("deleteVenue", q)
        IN  /\ Commit(r.db)
            /\ Respond("deleteVenue", r.res)
            /\ inflight' = Served("deleteVenue", q, r.res)

DeletesDeleteBooking ==
    \E q \in Reqs({Jwt(User), Jwt(Admin)}, 1..MaxBookings, {NoBody}) :
        LET r == Serve("deleteBooking", q)
        IN  /\ Commit(r.db)
            /\ Respond("deleteBooking", r.res)
            /\ inflight' = Served("deleteBooking", q, r.res)

DeletesDeleteDistrict ==
    \E q \in Reqs({Jwt(Admin)}, DOMAIN SeedDistricts, {NoBody}) :
        LET r == Serve("deleteDistrict", q)
        IN  /\ Commit(r.db)
            /\ Respond("deleteDistrict", r.res)
            /\ inflight' = Served("deleteDistrict", q, r.res)

DeletesDeleteUser ==
    \E q \in Reqs({Jwt(Admin)}, {User, Owner}, {NoBody}) :
        LET r == Serve("deleteUser", q)
        IN  /\ Commit(r.db)
            /\ Respond("deleteUser", r.res)
            /\ inflight' = Served("deleteUser", q, r.res)

NextDeletes ==
    \/ DeletesCreateImage
    \/ DeletesCreateBooking
    \/ DeletesDeleteVenue
    \/ DeletesDeleteBooking
    \/ DeletesDeleteDistrict
    \/ DeletesDeleteUser

SpecDeletes == InitHalls /\ [][NextDeletes]_vars

\* a delete of the collection named by op has just succeeded
Deleted200(op) == last'.op = op /\ last'.status = 200

\* C24: a successful deleteVenue removes the venue and the images that
\* reference it and nothing else, bookings of the venue included; a
\* successful deleteDistrict removes the district and leaves every venue; a
\* successful deleteUser or deleteBooking removes its target only.
C24_DeletesDoNotCascade ==
    [][LET id == inflight'[1].id IN
       /\ Deleted200("deleteVenue")
              => /\ venues' = Remove(venues, id)
                 /\ images' = [i \in {j \in DOMAIN images : images[j].venue_id # id} |-> images[i]]
                 /\ bookings' = bookings /\ users' = users /\ districts' = districts
       /\ Deleted200("deleteDistrict")
              => /\ districts' = Remove(districts, id)
                 /\ venues' = venues /\ images' = images
                 /\ bookings' = bookings /\ users' = users
       /\ Deleted200("deleteUser")
              => /\ users' = Remove(users, id)
                 /\ venues' = venues /\ images' = images
                 /\ bookings' = bookings /\ districts' = districts
       /\ Deleted200("deleteBooking")
              => /\ bookings' = Remove(bookings, id)
                 /\ venues' = venues /\ images' = images
                 /\ users' = users /\ districts' = districts]_vars

\* a venue with an image and a booking has just been deleted: the image is
\* gone, the booking stays, and the venue left keeps its deleted district
C24_Witness ==
    /\ 1 \in DOMAIN inflight
    /\ inflight[1].op = "deleteVenue" /\ inflight[1].status = 200
    /\ inflight[1].id \notin DOMAIN venues
    /\ \E b \in DOMAIN bookings : bookings[b].venue_id = inflight[1].id
    /\ images # <<>>
    /\ \A i \in DOMAIN images : images[i].venue_id # inflight[1].id
    /\ \E v \in DOMAIN venues : venues[v].district_id \notin DOMAIN districts

(***************************************************************************)
(* SpecVenueUpdates: the venues of InitHalls are updated by their owner,   *)
(* by another owner and by the admin, with bodies that carry a status or   *)
(* an owner_id.  Slot 1 of inflight keeps the request answered last.       *)
(***************************************************************************)
VenuePatches ==
    {Spread(VenueBody(c), [status |-> st]) : c \in {1, MaxCapacity}, st \in VenueStatuses}
        \cup {Spread(VenueBody(1), [owner_id |-> Owner2])}

VenueUpdatesByOwner ==
    \E q \in Reqs({Jwt(Owner), Jwt(Owner2)}, 1..MaxVenues, VenuePatches) :
        LET r == Serve("updateVenue", q)
        IN  /\ Commit(r.db)
            /\ Respond("updateVenue", r.res)
            /\ inflight' = Served("updateVenue", q, r.res)

VenueUpdatesByAdmin ==
    \E q \in Reqs({Jwt(Admin)}, 1..MaxVenues, VenuePatches) :
        LET r == Serve("updateVenue", q)
        IN  /\ Commit(r.db)
            /\ Respond("updateVenue", r.res)
            /\ inflight' = Served("updateVenue", q, r.res)

NextVenueUpdates ==
    \/ VenueUpdatesByOwner
    \/ VenueUpdatesByAdmin

SpecVenueUpdates == InitHalls /\ [][NextVenueUpdates]_vars

\* C25: an updateVenue whose body carries a status, sent by the venue's owner
\* who is no admin, is answered 200, stores the other fields of the body and
\* leaves the stored status; sent by an admin it is answered 200 and stores
\* the status of the body.
C25_StatusDroppedForOwner ==
    [][LET q == inflight'[1] IN
       (last'.op = "updateVenue" /\ q.id \in DOMAIN venues /\ Has(q.body, "status"))
           => /\ (venues[q.id].owner_id = q.tok.id /\ users[q.tok.id].role # "admin")
                     => /\ last'.status = 200
                        /\ venues'[q.id].status = venues[q.id].status
                        /\ \A f \in (DOMAIN q.body \cap venueFields) \ {"status"} :
                               venues'[q.id][f] = q.body[f]
              /\ users[q.tok.id].role = "admin"
                     => /\ last'.status = 200
                        /\ venues'[q.id].status = q.body.status
                        /\ \A f \in DOMAIN q.body \cap venueFields :
                               venues'[q.id][f] = q.body[f]]_vars

\* the owner has just sent another capacity together with the pending status
\* for their approved venue: the capacity is stored, the venue is still approved
C25_Witness ==
    /\ 1 \in DOMAIN inflight
    /\ inflight[1].op = "updateVenue" /\ inflight[1].status = 200
    /\ inflight[1].tok = Jwt(Owner)
    /\ Has(inflight[1].body, "status") /\ inflight[1].body.status = Pending
    /\ venues[inflight[1].id].owner_id = Owner
    /\ venues[inflight[1].id].status = Approved
    /\ venues[inflight[1].id].capacity = inflight[1].body.capacity
    /\ \E v \in DOMAIN venues : venues[v].status = Pending

\* C29: an updateVenue step of a principal who is no admin leaves the owner_id
\* of every venue as it was.
C29_OwnerKeptByNonAdmin ==
    [][(last'.op = "updateVenue" /\ users[inflight'[1].tok.id].role # "admin")
           => \A v \in DOMAIN venues : venues'[v].owner_id = venues[v].owner_id]_vars

\* the principal may see the booking: its creator, an admin, or the owner of
\* the venue it references
MaySee(uid, b) ==
    \/ bookings[b].user_id = uid
    \/ users[uid].role = "admin"
    \/ /\ bookings[b].venue_id \in DOMAIN venues
       /\ venues[bookings[b].venue_id].owner_id = uid

\* C26: getBookingById of a stored principal answers 404 for a booking that
\* is not stored, 200 for a stored booking the principal may see and 403 for
\* a stored booking the principal may not see.
C26_BookingVisibility ==
    \A u \in DOMAIN users : \A b \in 1..MaxBookings :
        LET r == getBookingById(Store, Jwt(u), b)
        IN  IF b \notin DOMAIN bookings THEN r.res.status = 404
            ELSE IF MaySee(u, b) THEN r.res.status = 200
            ELSE r.res.status = 403

\* the users that were stored once and are deleted now
Gone == {u \in 1..(seq.user - 1) : u \notin DOMAIN users}

\* C27: a request that presents the validly signed token of a deleted user is
\* answered 401 and changes nothing: a createBooking, and likewise every
\* other protected operation, getProfile and getBookingById.
C27_DeletedUserIs401 ==
    \A u \in Gone :
        /\ \A q \in ReqsOf("createBooking", {Jwt(u)}) :
               /\ Serve("createBooking", q).res.status = 401
               /\ Serve("createBooking", q).db = Store
        /\ \A op \in Ops : \A q \in ReqsOf(op, {Jwt(u)}) :
               /\ Serve(op, q).res.status = 401
               /\ Serve(op, q).db = Store
        /\ getProfile(Store, Jwt(u)).res.status = 401
        /\ \A b \in BookingIds : getBookingById(Store, Jwt(u), b).res.status = 401

\* the user who made a booking has been deleted, and their next createBooking
\* has just been refused
C27_Witness ==
    /\ User \in Gone
    /\ \E b \in DOMAIN bookings : bookings[b].user_id = User
    /\ 1 \in DOMAIN inflight
    /\ inflight[1].op = "createBooking"
    /\ inflight[1].tok = Jwt(User)
    /\ inflight[1].status = 401
    /\ last.status = 401

====
